---------------------------- MODULE Spec2Model ----------------------------
(***************************************************************************)
(* Loop duplication (LoopDuplicationPass) and its two clients:             *)
(*   LASBC  - Loop Array Subscript Bound Checking,                         *)
(*   LCLICM - Loop Conditional LICM.                                       *)
(*                                                                         *)
(* Three specifications share this module:                                 *)
(*   Spec       the engine: runOnLoop / transformCurrentLoop on a control  *)
(*              flow graph with its loop forest and ProcessedLoops;        *)
(*   SpecLASBC  the function LASBC produces, executed on machine integers; *)
(*   SpecLCLICM the function LCLICM produces, executed on a memory.        *)
(***************************************************************************)
EXTENDS Integers, Sequences, FiniteSets, TLC

(***************************************************************************)
(* Machine integers.  An iN value is a little-endian sequence of N/8       *)
(* bytes, so that i32 and i64 arithmetic wraps exactly as the IR's does.   *)
(***************************************************************************)
ByteBase == 2 ^ 8

RECURSIVE FromNat(_, _)
FromNat(v, n) ==
    IF n = 0 THEN << >> ELSE <<v % ByteBase>> \o FromNat(v \div ByteBase, n - 1)

BVZero(n) == [i \in 1..n |-> 0]

BVOnes(n) == [i \in 1..n |-> ByteBase - 1]

\* The value 2^k in n bytes.
BVPow2(k, n) ==
    [i \in 1..n |-> IF i = (k \div 8) + 1
                    THEN CASE k % 8 = 0 -> 1   [] k % 8 = 1 -> 2
                           [] k % 8 = 2 -> 4   [] k % 8 = 3 -> 8
                           [] k % 8 = 4 -> 16  [] k % 8 = 5 -> 32
                           [] k % 8 = 6 -> 64  [] OTHER -> 128
                    ELSE 0]

IsNeg(x) == x[Len(x)] >= 128

IsZero(x) == \A i \in 1..Len(x) : x[i] = 0

RECURSIVE AddCarry(_, _, _, _)
AddCarry(x, y, i, c) ==
    IF i > Len(x) THEN << >>
    ELSE LET s == x[i] + y[i] + c
         IN  <<s % ByteBase>> \o AddCarry(x, y, i + 1, s \div ByteBase)

BVAdd(x, y) == AddCarry(x, y, 1, 0)

BVNot(x) == [i \in 1..Len(x) |-> (ByteBase - 1) - x[i]]

BVNeg(x) == BVAdd(BVNot(x), FromNat(1, Len(x)))

BVSub(x, y) == BVAdd(x, BVNeg(y))

\* x * c for one byte c, with the carry out of the top byte appended
\* (Len(x) + 1 bytes: the product without wrapping).
RECURSIVE MulByteCarry(_, _, _, _)
MulByteCarry(x, c, i, carry) ==
    IF i > Len(x) THEN <<carry>>
    ELSE LET p == x[i] * c + carry
         IN  <<p % ByteBase>> \o MulByteCarry(x, c, i + 1, p \div ByteBase)

WideMulByte(x, c) == MulByteCarry(x, c, 1, 0)

BVMulByte(x, c) == SubSeq(WideMulByte(x, c), 1, Len(x))

\* x shifted left by k bytes, truncated to Len(x).
ShiftBytes(x, k) ==
    [i \in 1..Len(x) |-> IF i <= k THEN 0 ELSE x[i - k]]

RECURSIVE MulAcc(_, _, _)
MulAcc(x, y, i) ==
    IF i > Len(y) THEN BVZero(Len(x))
    ELSE BVAdd(ShiftBytes(BVMulByte(x, y[i]), i - 1), MulAcc(x, y, i + 1))

BVMul(x, y) == MulAcc(x, y, 1)

ZExt(x, n) == [i \in 1..n |-> IF i <= Len(x) THEN x[i] ELSE 0]

SExt(x, n) ==
    [i \in 1..n |-> IF i <= Len(x) THEN x[i]
                    ELSE IF IsNeg(x) THEN ByteBase - 1 ELSE 0]

\* Unsigned x < y, compared from the most significant byte down.
RECURSIVE ULtFrom(_, _, _)
ULtFrom(x, y, i) ==
    IF i = 0 THEN FALSE
    ELSE IF x[i] # y[i] THEN x[i] < y[i]
    ELSE ULtFrom(x, y, i - 1)

BVUlt(x, y) == ULtFrom(x, y, Len(x))

BVSlt(x, y) ==
    IF IsNeg(x) # IsNeg(y) THEN IsNeg(x) ELSE BVUlt(x, y)

ICmp(pred, x, y) ==
    CASE pred = "eq"  -> x = y
      [] pred = "ne"  -> x # y
      [] pred = "ugt" -> BVUlt(y, x)
      [] pred = "uge" -> ~BVUlt(x, y)
      [] pred = "ult" -> BVUlt(x, y)
      [] pred = "ule" -> ~BVUlt(y, x)
      [] pred = "sgt" -> BVSlt(y, x)
      [] pred = "sge" -> ~BVSlt(x, y)
      [] pred = "slt" -> BVSlt(x, y)
      [] pred = "sle" -> ~BVSlt(y, x)

BinOp(op, x, y) ==
    CASE op = "add" -> BVAdd(x, y)
      [] op = "sub" -> BVSub(x, y)
      [] op = "mul" -> BVMul(x, y)

(***************************************************************************)
(* State.                                                                  *)
(***************************************************************************)
VARIABLES
    \* ---- SpecLASBC: the function LASBC produces, being executed ----
    lsPhi,      \* the header PHI node the candidacy check looks at
    lsN,        \* run-time value of N (the exit bound), an iW value
    lsMulC,     \* run-time value of the global c
    lsPc,       \* "start" | "rejected" | "preheader" | "header" | "exit" | "cut"
    lsBranch,   \* the preheader's terminator after emitPreheaderBranch
    lsCond,     \* value the branch condition took
    lsCopy,     \* the loop copy control entered
    lsIV,       \* current value of that copy's induction PHI
    lsTrace,    \* index values presented to the exit comparison so far
    lsA,        \* elements of a[] written so far: set of <<index, value>>
    \* ---- SpecLCLICM: the function LCLICM produces, being executed ----
    lcLoop,     \* the loop's stores to loop-invariant pointers (static shape)
    lcBase,     \* run-time address of each base pointer
    lcAcc,      \* run-time addresses the loop touches: P, first Q, trip count
    lcMem0,     \* memory when the function is entered
    lcMem,      \* memory now
    lcPc,       \* "start" | "rejected" | "preheader" | "cloneEntry" | "loop"
                \* | "cloneExit" | "done"
    lcDeps,     \* PromotionPtrDeps after populatePromotionPtrDeps
    lcBranch,   \* the preheader's terminator after emitPreheaderBranch
    lcOrs,      \* values the lclicm.or instructions took
    lcCond,     \* value the branch condition took
    lcCopy,     \* the loop copy control entered
    lcJ,        \* trips made so far
    lcScalar    \* the promoted scalar, per candidate pointer

lasbcVars ==
    <<lsPhi, lsN, lsMulC, lsPc, lsBranch, lsCond, lsCopy, lsIV, lsTrace, lsA>>

lclicmVars ==
    <<lcLoop, lcBase, lcAcc, lcMem0, lcMem, lcPc, lcDeps, lcBranch, lcOrs,
      lcCond, lcCopy, lcJ, lcScalar>>

VARIABLES F, LI, strategy, ProcessedLoops, callLog, lastCall, lastTransform,
          subjects, covered, fatal

engineVars ==
    <<F, LI, strategy, ProcessedLoops, callLog, lastCall, lastTransform,
      subjects, covered, fatal>>

\* The pass manager's view: the function being processed, each strategy
\* instance's ProcessedLoops, and what the instances did so far.
VARIABLES pmF, pmLI, pmProcessed, pmFunction, pmRuns, pmLastCall

pmVars == <<pmF, pmLI, pmProcessed, pmFunction, pmRuns, pmLastCall>>

vars == <<engineVars, lasbcVars, lclicmVars, pmVars>>

\* Each specification below runs one of four state machines; the
\* variables of the others stay at these values.
PassManagerIdle ==
    /\ pmF = << >> /\ pmLI = << >> /\ pmProcessed = << >>
    /\ pmFunction = 0 /\ pmRuns = << >> /\ pmLastCall = << >>

LasbcIdle ==
    /\ lsPhi = << >> /\ lsN = << >> /\ lsMulC = 0 /\ lsPc = "idle"
    /\ lsBranch = << >> /\ lsCond = FALSE /\ lsCopy = << >>
    /\ lsIV = << >> /\ lsTrace = << >> /\ lsA = {}

LclicmIdle ==
    /\ lcLoop = << >> /\ lcBase = << >> /\ lcAcc = << >>
    /\ lcMem0 = << >> /\ lcMem = << >> /\ lcPc = "idle"
    /\ lcDeps = << >> /\ lcBranch = << >> /\ lcOrs = << >>
    /\ lcCond = FALSE /\ lcCopy = << >> /\ lcJ = 0 /\ lcScalar = 0

EngineIdle ==
    /\ F = << >> /\ LI = << >> /\ strategy = "idle"
    /\ ProcessedLoops = {} /\ callLog = << >> /\ lastCall = << >>
    /\ lastTransform = << >> /\ subjects = << >> /\ covered = {}
    /\ fatal = FALSE

(***************************************************************************)
(* LoopDuplicationPass::transformCurrentLoop, the part both clients share   *)
(* at run time: which copy each successor of the new branch enters.        *)
(***************************************************************************)
\* The two destinations given in the other order.
SwappedPreheaderBranchArgs(origEntry, cloneEntry) ==
    [TrueDest |-> cloneEntry, FalseDest |-> origEntry]

\* emitPreheaderBranch(LoopBBs[0], NewBBs[0], OldBr): the first argument is
\* TrueDest, the second FalseDest.  LoopBBs[0] is the entry of the original
\* loop, NewBBs[0] the entry of its clone.
PreheaderBranchArgs(origEntry, cloneEntry) ==
    [TrueDest |-> origEntry, FalseDest |-> cloneEntry]

(***************************************************************************)
(* LASBC.                                                                  *)
(***************************************************************************)
INT32_MAX == 2147483647

IVBits == 32

BitsPerByte == 8

Bytes(bits) == bits \div BitsPerByte

\* The header PHI of the reproducer in the LASBC test:
\*   %i.0 = phi i32 [0, %entry], [%inc, %for.body]
\*   %conv = zext i32 %i.0 to iW ; %cmp = icmp sgt iW %0, %conv
\*   %inc = add i32 %i.0, 1
CanonicalPhi(w) ==
    [ bits       |-> IVBits,       \* width of the PHI's type
      isInt      |-> TRUE,
      init       |-> FromNat(0, Bytes(IVBits)),
      iterIsBinOp|-> TRUE,         \* back-edge value is a BinaryOperator
      iterUsers  |-> 1,            \* number of users of the back-edge value
      op         |-> "add",
      constOp    |-> TRUE,         \* operand 1 of the update is a ConstantInt
      C          |-> FromNat(1, Bytes(IVBits)),
      op0IsPN    |-> TRUE,         \* operand 0 of the update is the PHI
      pnUsers    |-> <<"zext", "binop">>,   \* users of the PHI
      wideBits   |-> w,            \* type the zext extends to (N's type)
      zextUsers  |-> <<"icmp", "gep", "gep">>,
      cmpUsers   |-> <<"br">>,     \* users of the exit comparison
      pred       |-> "sgt",
      nOperand   |-> 0,            \* operand index of N in the comparison
      nKind      |-> "inst",       \* "inst" | "const" | "arg" | "global"
      nInvariant |-> TRUE,
      nBlock     |-> "preheader",  \* where N is defined: "preheader", "dominator"
                                   \* (a block above the preheader), a block
                                   \* of the loop, "" when N is no instruction
      brInLoop   |-> TRUE,
      brExits    |-> TRUE ]        \* a successor of the branch leaves the loop

\* Walk of the zext's users in isPHIAnAppropriateIV: "bad" when a user is
\* neither a GEP nor the one comparison that has a single branch user.
RECURSIVE ZExtUserScan(_, _, _, _, _)
ZExtUserScan(users, cmpUsers, i, sawCmp, sawGEP) ==
    IF i > Len(users) THEN [ok |-> TRUE, cmp |-> sawCmp, gep |-> sawGEP]
    ELSE IF users[i] = "icmp"
         THEN IF ~sawCmp /\ Len(cmpUsers) = 1 /\ cmpUsers[1] = "br"
              THEN ZExtUserScan(users, cmpUsers, i + 1, TRUE, sawGEP)
              ELSE [ok |-> FALSE, cmp |-> sawCmp, gep |-> sawGEP]
    ELSE IF users[i] = "gep"
         THEN ZExtUserScan(users, cmpUsers, i + 1, sawCmp, TRUE)
    ELSE [ok |-> FALSE, cmp |-> sawCmp, gep |-> sawGEP]

\* LoopConditionalLICMPass::isAccessibleInPreheader, of the value N.
isAccessibleInPreheader(kind, block) ==
    \/ kind \in {"const", "arg", "global"}
    \/ kind = "inst" /\ block \in {"preheader", "dominator"}

\* The check with N taken when it is accessible in the preheader.
AcceptsAnyAccessibleN(PN) ==
    LET scan == ZExtUserScan(PN.zextUsers, PN.cmpUsers, 1, FALSE, FALSE)
    IN  /\ PN.isInt /\ PN.bits = IVBits
        /\ PN.iterIsBinOp /\ PN.iterUsers = 1
        /\ PN.constOp /\ PN.op0IsPN
        /\ Len(PN.pnUsers) = 2
        /\ \E i \in 1..2 : PN.pnUsers[i] = "zext"
        /\ scan.ok /\ scan.cmp /\ scan.gep
        /\ PN.nOperand = 0
        /\ isAccessibleInPreheader(PN.nKind, PN.nBlock)
        /\ PN.brInLoop /\ PN.brExits

isPHIAnAppropriateIV(PN) ==
    LET scan == ZExtUserScan(PN.zextUsers, PN.cmpUsers, 1, FALSE, FALSE)
    IN  /\ PN.isInt /\ PN.bits = IVBits
        /\ PN.iterIsBinOp /\ PN.iterUsers = 1
        /\ PN.constOp /\ PN.op0IsPN
        /\ Len(PN.pnUsers) = 2
        /\ \E i \in 1..2 : PN.pnUsers[i] = "zext"
        /\ scan.ok /\ scan.cmp /\ scan.gep
        \* N = Compare->getOperand(0) unless that is the PHI; when the zext is
        \* operand 0 the zext itself is taken for N and is not loop invariant.
        /\ PN.nOperand = 0
        /\ PN.nKind = "inst" /\ PN.nInvariant /\ PN.nBlock = "preheader"
        /\ PN.brInLoop /\ PN.brExits

\* LASBCPass::isCurrentLoopACandidate: index of the first header PHI that
\* is an appropriate IV, 0 when there is none.
RECURSIVE FirstAppropriateIV(_, _)
FirstAppropriateIV(phiList, i) ==
    IF i > Len(phiList) THEN 0
    ELSE IF isPHIAnAppropriateIV(phiList[i]) THEN i
    ELSE FirstAppropriateIV(phiList, i + 1)

LasbcIsCurrentLoopACandidate(phiList) == FirstAppropriateIV(phiList, 1) # 0

\* LASBCPass::emitPreheaderBranch: the value of the branch condition
\*   (N sgt 0) and ((N * sizeof) sle INT32_MAX), compared eq with true,
\* on N's own width.
LasbcMulInst(N) == BVMulByte(N, Len(N))

LasbcBranchCondition(N) ==
    LET NGreaterThanZero     == ICmp("sgt", N, BVZero(Len(N)))
        NLesserThanINT32_MAX ==
            ICmp("sle", LasbcMulInst(N), FromNat(INT32_MAX, Len(N)))
        AndInst              == IF NGreaterThanZero /\ NLesserThanINT32_MAX
                                THEN 1 ELSE 0
    IN  AndInst = 1

(***************************************************************************)
(* The loop LASBC rewrites, instruction by instruction.  An instruction is *)
(* [opcode, bits, ops]; the loop is a function from the instructions'      *)
(* names to the instructions.                                              *)
(***************************************************************************)
\* An operand: an instruction of the loop, a constant, a value defined
\* outside the loop, or undef.
Inst(id) == [k |-> "inst", id |-> id, v |-> << >>]

ConstantInt(v) == [k |-> "const", id |-> "", v |-> v]

Outside(id) == [k |-> "value", id |-> id, v |-> << >>]

UndefValue == [k |-> "undef", id |-> "", v |-> << >>]

Instr(opcode, bits, ops) == [opcode |-> opcode, bits |-> bits, ops |-> ops]

\* for.cond and for.body of the lasbc test, around the header PHI PN.
LoopInsts(PN) ==
    ("i.0" :> Instr("phi", PN.bits, <<ConstantInt(PN.init), Inst("inc")>>))
    @@ ("conv" :> Instr("zext", PN.wideBits, <<Inst("i.0")>>))
    @@ ("cmp" :> Instr("icmp", 1, <<Outside("N"), Inst("conv")>>))
    @@ ("br" :> Instr("br", 0, <<Inst("cmp")>>))
    @@ ("arrayidx" :>
           Instr("getelementptr", 0, <<Outside("b"), Inst("conv")>>))
    @@ ("1" :> Instr("load", PN.wideBits, <<Inst("arrayidx")>>))
    @@ ("2" :> Instr("load", PN.wideBits, <<Outside("c")>>))
    @@ ("mul" :> Instr("mul", PN.wideBits, <<Inst("2"), Inst("1")>>))
    @@ ("arrayidx3" :>
           Instr("getelementptr", 0, <<Outside("a"), Inst("conv")>>))
    @@ ("store" :> Instr("store", 0, <<Inst("mul"), Inst("arrayidx3")>>))
    @@ ("inc" :> Instr(PN.op, PN.bits, <<Inst("i.0"), ConstantInt(PN.C)>>))

\* CloneBasicBlock and RemapInstruction on the loop's instructions: the
\* clones are named with the suffix and use each other; what is defined
\* outside the loop is shared.
CloneInsts(insts, Suffix) ==
    [c \in {j \o Suffix : j \in DOMAIN insts} |->
        LET j == CHOOSE x \in DOMAIN insts : x \o Suffix = c
        IN  [insts[j] EXCEPT !.ops =
                [n \in DOMAIN insts[j].ops |->
                    IF insts[j].ops[n].k = "inst"
                    THEN Inst(insts[j].ops[n].id \o Suffix)
                    ELSE insts[j].ops[n]]]]

InstUsers(insts, id) ==
    {j \in DOMAIN insts : \E n \in DOMAIN insts[j].ops : insts[j].ops[n] = Inst(id)}

\* Value::replaceAllUsesWith inside the loop.
ReplaceUses(insts, Old, New) ==
    [j \in DOMAIN insts |->
        [insts[j] EXCEPT !.ops =
            [n \in DOMAIN insts[j].ops |->
                IF insts[j].ops[n] = Old THEN New ELSE insts[j].ops[n]]]]

\* isInstructionTriviallyDead: no use, and neither a terminator nor a store.
isInstructionTriviallyDead(insts, id) ==
    /\ InstUsers(insts, id) = {}
    /\ insts[id].opcode \notin {"br", "store"}

\* The worklist of RecursivelyDeleteTriviallyDeadInstructions: an erased
\* instruction's operands that are left without a use are erased in turn.
RECURSIVE DeleteDeadInstructions(_, _)
DeleteDeadInstructions(insts, work) ==
    IF work = {} THEN insts
    ELSE LET I == CHOOSE x \in work : TRUE
             rest == [j \in DOMAIN insts \ {I} |-> insts[j]]
             opnds == {insts[I].ops[n].id :
                          n \in {m \in DOMAIN insts[I].ops :
                                    insts[I].ops[m].k = "inst"}}
             dead == {j \in opnds \cap DOMAIN rest :
                         isInstructionTriviallyDead(rest, j)}
         IN  DeleteDeadInstructions(rest, (work \ {I}) \cup dead)

RecursivelyDeleteTriviallyDeadInstructions(insts, id) ==
    IF id \in DOMAIN insts /\ isInstructionTriviallyDead(insts, id)
    THEN DeleteDeadInstructions(insts, {id})
    ELSE insts

\* optimizeDuplicatedLoop that leaves IVLoopIterationValue in place.
OptimizeKeepingTheUpdate(insts, PN) ==
    LET NType == PN.wideBits
        NewPHI == "i.0.lasbc.n"
        NewIterValue == "inc.lasbc"
        created ==
            insts
            @@ (NewPHI :>
                  Instr("phi", NType,
                        <<ConstantInt(BVZero(Bytes(NType))), Inst(NewIterValue)>>))
            @@ (NewIterValue :>
                  Instr(insts["inc"].opcode, NType,
                        <<Inst(NewPHI), ConstantInt(SExt(PN.C, Bytes(NType)))>>))
    IN  RecursivelyDeleteTriviallyDeadInstructions(
            ReplaceUses(created, Inst("conv"), Inst(NewPHI)), "conv")

\* LASBCPass::optimizeDuplicatedLoop on the loop that holds IV ("i.0"),
\* IVExtension ("conv") and IVLoopIterationValue ("inc").
LASBCPass_optimizeDuplicatedLoop(insts, PN) ==
    LET NType == PN.wideBits
        NewPHI == "i.0.lasbc.n"
        NewIterValue == "inc.lasbc"
        created ==
            insts
            @@ (NewPHI :>
                  Instr("phi", NType,
                        <<ConstantInt(BVZero(Bytes(NType))), Inst(NewIterValue)>>))
            @@ (NewIterValue :>
                  Instr(insts["inc"].opcode, NType,
                        <<Inst(NewPHI), ConstantInt(SExt(PN.C, Bytes(NType)))>>))
        noExt == RecursivelyDeleteTriviallyDeadInstructions(
                     ReplaceUses(created, Inst("conv"), Inst(NewPHI)), "conv")
    IN  RecursivelyDeleteTriviallyDeadInstructions(
            ReplaceUses(noExt, Inst("inc"), UndefValue), "inc")

\* A loop copy as the execution sees it.
\*   phiBytes  width of the induction PHI
\*   ext       TRUE when the index is zext(PHI), FALSE when it is the PHI
\*   insts     the copy's instructions
NarrowCopy(PN, which) ==
    [ which |-> which, phiBytes |-> Bytes(PN.bits), init |-> PN.init,
      op |-> PN.op, C |-> PN.C, ext |-> TRUE, pred |-> PN.pred,
      wideBytes |-> Bytes(PN.wideBits),
      insts |-> IF which = "clone"
                THEN CloneInsts(LoopInsts(PN), ".ld.clone")
                ELSE LoopInsts(PN) ]

\* The wide PHI seeded with 1 instead of 0 (a variant of the definition below).
OneSeededOptimizedCopy(PN, which) ==
    [ which |-> which, phiBytes |-> Bytes(PN.wideBits),
      init |-> FromNat(1, Bytes(PN.wideBits)),
      op |-> PN.op, C |-> SExt(PN.C, Bytes(PN.wideBits)),
      ext |-> FALSE, pred |-> PN.pred, wideBytes |-> Bytes(PN.wideBits),
      insts |-> LASBCPass_optimizeDuplicatedLoop(LoopInsts(PN), PN) ]

\* LASBCPass::optimizeDuplicatedLoop.  IV is the PHI found in Header, the
\* header of CurrentLoop: the copy that is rewritten is the original loop.
LasbcOptimizedCopy(PN, which) ==
    [ which |-> which, phiBytes |-> Bytes(PN.wideBits),
      init |-> BVZero(Bytes(PN.wideBits)),
      op |-> PN.op, C |-> SExt(PN.C, Bytes(PN.wideBits)),
      ext |-> FALSE, pred |-> PN.pred, wideBytes |-> Bytes(PN.wideBits),
      insts |-> LASBCPass_optimizeDuplicatedLoop(LoopInsts(PN), PN) ]

\* The two-way branch LASBC leaves in the preheader.
LasbcTransformed(PN) ==
    PreheaderBranchArgs(LasbcOptimizedCopy(PN, "original"),
                        NarrowCopy(PN, "clone"))

\* One trip through a copy's header and body.
IndexOf(copy, iv) == IF copy.ext THEN ZExt(iv, copy.wideBytes) ELSE iv

StaysInLoop(copy, N, iv) == ICmp(copy.pred, N, IndexOf(copy, iv))

NextIV(copy, iv) == BinOp(copy.op, iv, copy.C)

\* b[idx]: the array holds low-byte(idx) + 1 at every index.
BAt(idx) == idx[1] + 1

\* a[idx] = b[idx] * c
StoreA(mem, idx, c) ==
    {p \in mem : p[1] # idx} \cup {<<idx, BAt(idx) * c>>}

(***************************************************************************)
(* SpecLASBC: LASBC::runOnLoop on one loop, then the resulting function    *)
(* executed: the preheader branch, then the copy it enters, one trip of    *)
(* header and body per step.                                               *)
(***************************************************************************)
MaxIter == 101

MaxC == 2

WideBitsChoices == {48, 64}

\* Values of N on n bytes: small ones, the ones around INT32_MAX / sizeof,
\* the ones whose product with sizeof leaves n bytes, and negative ones.
NValues(n) ==
    {FromNat(k, n) : k \in {0, 1, 2, 3, 100}}
    \cup {FromNat(INT32_MAX \div n, n), FromNat((INT32_MAX \div n) + 1, n),
          FromNat(INT32_MAX, n)}
    \cup {BVPow2(8 * n - 4, n), BVPow2(8 * n - 3, n), BVPow2(8 * n - 2, n),
          BVAdd(BVPow2(8 * n - 3, n), FromNat(1, n))}
    \cup {BVPow2(8 * n - 1, n), BVOnes(n)}

SmallNValues(n) == {FromNat(k, n) : k \in 0..3}

\* Header PHIs that differ from the canonical one in what the candidacy
\* check does not look at ...
AcceptedPhiShapes ==
    {[CanonicalPhi(64) EXCEPT !.init = i, !.op = o, !.C = c, !.pred = p] :
        i \in {FromNat(0, 4), FromNat(1, 4)},
        o \in {"add", "sub", "mul"},
        c \in {FromNat(1, 4), FromNat(2, 4), BVOnes(4)},
        p \in {"sgt", "ugt", "ne"}}

\* ... and in what it does look at.
RejectedPhiShapes ==
    { [CanonicalPhi(64) EXCEPT !.bits = 16, !.init = FromNat(0, 2),
                               !.C = FromNat(1, 2)],
      [CanonicalPhi(64) EXCEPT !.nOperand = 1],
      [CanonicalPhi(64) EXCEPT !.constOp = FALSE],
      [CanonicalPhi(64) EXCEPT !.zextUsers = <<"icmp">>],
      [CanonicalPhi(64) EXCEPT !.pnUsers = <<"zext", "binop", "other">>],
      [CanonicalPhi(64) EXCEPT !.iterUsers = 2],
      [CanonicalPhi(64) EXCEPT !.nKind = "const", !.nBlock = ""],
      [CanonicalPhi(64) EXCEPT !.nKind = "arg", !.nBlock = ""],
      [CanonicalPhi(64) EXCEPT !.nKind = "global", !.nBlock = ""],
      [CanonicalPhi(64) EXCEPT !.nBlock = "dominator"],
      [CanonicalPhi(64) EXCEPT !.nBlock = "for.body", !.nInvariant = FALSE] }

NoCopy == [which |-> "none"]

NoBranch == [TrueDest |-> NoCopy, FalseDest |-> NoCopy]

InitLASBC ==
    /\ \/ /\ lsPhi \in {CanonicalPhi(w) : w \in WideBitsChoices}
          /\ lsN \in NValues(Bytes(lsPhi.wideBits))
       \/ /\ lsPhi \in AcceptedPhiShapes \cup RejectedPhiShapes
          /\ lsN \in SmallNValues(Bytes(lsPhi.wideBits))
    /\ lsMulC \in 1..MaxC
    /\ lsPc = "start"
    /\ lsBranch = NoBranch
    /\ lsCond = FALSE
    /\ lsCopy = NoCopy
    /\ lsIV = << >>
    /\ lsTrace = << >>
    /\ lsA = {}
    /\ LclicmIdle
    /\ EngineIdle
    /\ PassManagerIdle

\* LASBCPass::runOnLoop, accepted: transformCurrentLoop leaves the two-way
\* branch and the two copies.
LasbcRunOnLoopTransforms ==
    /\ lsPc = "start"
    /\ LasbcIsCurrentLoopACandidate(<<lsPhi>>)
    /\ lsBranch' = LasbcTransformed(lsPhi)
    /\ lsPc' = "preheader"
    /\ UNCHANGED <<lsPhi, lsN, lsMulC, lsCond, lsCopy, lsIV, lsTrace, lsA>>
    /\ UNCHANGED <<lclicmVars, engineVars, pmVars>>

\* LASBCPass::runOnLoop, not a candidate: returns false.
LasbcRunOnLoopRejects ==
    /\ lsPc = "start"
    /\ ~LasbcIsCurrentLoopACandidate(<<lsPhi>>)
    /\ lsPc' = "rejected"
    /\ UNCHANGED <<lsPhi, lsN, lsMulC, lsBranch, lsCond, lsCopy, lsIV,
                   lsTrace, lsA>>
    /\ UNCHANGED <<lclicmVars, engineVars, pmVars>>

\* Execution reaches the preheader's terminator.
LasbcTakeBranch ==
    /\ lsPc = "preheader"
    /\ lsCond' = LasbcBranchCondition(lsN)
    /\ lsCopy' = IF lsCond' THEN lsBranch.TrueDest ELSE lsBranch.FalseDest
    /\ lsIV' = lsCopy'.init
    /\ lsPc' = "header"
    /\ UNCHANGED <<lsPhi, lsN, lsMulC, lsBranch, lsTrace, lsA>>
    /\ UNCHANGED <<lclicmVars, engineVars, pmVars>>

\* One trip: the header's comparison, then the body and the update.
LasbcIterate ==
    /\ lsPc = "header"
    /\ Len(lsTrace) < MaxIter
    /\ LET idx == IndexOf(lsCopy, lsIV)
       IN  /\ lsTrace' = Append(lsTrace, idx)
           /\ IF StaysInLoop(lsCopy, lsN, lsIV)
              THEN /\ lsA' = StoreA(lsA, idx, lsMulC)
                   /\ lsIV' = NextIV(lsCopy, lsIV)
                   /\ lsPc' = "header"
              ELSE /\ lsPc' = "exit"
                   /\ UNCHANGED <<lsA, lsIV>>
    /\ UNCHANGED <<lsPhi, lsN, lsMulC, lsBranch, lsCond, lsCopy>>
    /\ UNCHANGED <<lclicmVars, engineVars, pmVars>>

\* The model follows a run for MaxIter trips at most.
LasbcCut ==
    /\ lsPc = "header"
    /\ Len(lsTrace) >= MaxIter
    /\ lsPc' = "cut"
    /\ UNCHANGED <<lsPhi, lsN, lsMulC, lsBranch, lsCond, lsCopy, lsIV,
                   lsTrace, lsA>>
    /\ UNCHANGED <<lclicmVars, engineVars, pmVars>>

NextLASBC ==
    \/ LasbcRunOnLoopTransforms
    \/ LasbcRunOnLoopRejects
    \/ LasbcTakeBranch
    \/ LasbcIterate
    \/ LasbcCut

SpecLASBC == InitLASBC /\ [][NextLASBC]_vars

\* The loop before the pass ran, executed from its preheader for MaxIter
\* trips at most: the reference the transformed function is compared to.
\* One trip of a run in progress; a run that left the loop stays as it is.
RunTrip(copy, N, c, r) ==
    IF r.pc # "header"
    THEN r
    ELSE LET idx == IndexOf(copy, r.iv)
         IN  IF StaysInLoop(copy, N, r.iv)
             THEN [pc |-> "header", iv |-> NextIV(copy, r.iv),
                   trace |-> Append(r.trace, idx),
                   mem |-> StoreA(r.mem, idx, c)]
             ELSE [pc |-> "exit", iv |-> r.iv,
                   trace |-> Append(r.trace, idx), mem |-> r.mem]

\* n trips in a row, as two halves; the second half runs only when the
\* first is still in the loop.
RECURSIVE RunTrips(_, _, _, _, _)
RunTrips(copy, N, c, r, n) ==
    IF n = 0 THEN r
    ELSE IF n = 1 THEN RunTrip(copy, N, c, r)
    ELSE LET half == RunTrips(copy, N, c, r, n \div 2)
         IN  IF half.pc # "header" THEN half
             ELSE RunTrips(copy, N, c, half, n - (n \div 2))

RunCopy(copy, N, c, iv, trace, mem) ==
    LET r == RunTrips(copy, N, c,
                      [pc |-> "header", iv |-> iv, trace |-> trace,
                       mem |-> mem],
                      MaxIter - Len(trace))
    IN  [pc |-> IF r.pc = "header" THEN "cut" ELSE r.pc,
         trace |-> r.trace, mem |-> r.mem]

UntransformedRun ==
    LET copy == NarrowCopy(lsPhi, "untransformed")
    IN  RunCopy(copy, lsN, lsMulC, copy.init, << >>, {})

\* N >= 1 as a mathematical integer.
MathPositive(N) == ~IsNeg(N) /\ ~IsZero(N)

\* For N >= 1: the mathematical product N * sizeof is <= INT32_MAX.
MathProductFits(N) ==
    LET p == WideMulByte(N, Len(N))
    IN  /\ \A i \in 5..Len(p) : p[i] = 0
        /\ p[4] < 128

LasbcBranchTaken == lsPc \in {"header", "exit", "cut"}

LasbcRunOver == lsPc \in {"exit", "cut"}

SameAsUntransformed ==
    LET r == UntransformedRun
    IN  lsPc = r.pc /\ lsTrace = r.trace /\ lsA = r.mem

\* C4: the LASBC guard, on N's own width w with sizeof = w/8, is true for
\* every N >= 1 whose mathematical product N * sizeof is <= INT32_MAX and
\* false for every N <= 0 and every N whose mathematical product exceeds
\* INT32_MAX, wrapping products included.
C4_GuardDecidesMathematicalBound ==
    LasbcBranchTaken =>
        (lsCond <=> (MathPositive(lsN) /\ MathProductFits(lsN)))

\* C5: for every loop the candidacy accepts and every N that makes the
\* guard true, the copy on the true branch makes the same number of trips
\* and presents the same index values as the loop did before the pass.
C5_TrueBranchSameIndices ==
    (LasbcRunOver /\ lsCond) =>
        (lsPc = UntransformedRun.pc /\ lsTrace = UntransformedRun.trace)

GepOffset(step) == IF step.single THEN step.rangeMax ELSE step.srcBytes

\* OffsetFromStartAddr after walking the chain from its first GEP.
RECURSIVE GepChainOffset(_, _, _)
GepChainOffset(chain, i, acc) ==
    IF i > Len(chain) THEN acc
    ELSE GepChainOffset(chain, i + 1,
                        IF i = 1 THEN GepOffset(chain[i])
                        ELSE acc * GepOffset(chain[i]))

\* The operands of one BinaryOperator, in order.  "fail" is the early
\* `return false`; deps are the {StartAddr, Offset} pairs pushed before it.
RECURSIVE ScanOperands(_, _, _, _, _)
ScanOperands(ptr, operands, i, saw, deps) ==
    IF i > Len(operands) THEN [fail |-> ~saw, deps |-> deps]
    ELSE LET o == operands[i]
         IN  IF ~o.isLoad \/ ~o.isGEP \/ ~o.accessible
             THEN [fail |-> TRUE, deps |-> deps]
             ELSE ScanOperands(ptr, operands, i + 1, saw \/ o.ptr = ptr,
                      Append(deps, [start |-> o.start,
                                    off |-> GepChainOffset(o.chain, 1, 0)]))

\* LoopConditionalLICMPass::populatePromotionPtrDeps over the loop's stores
\* in order; deps maps each candidate pointer to its list of pairs.
RECURSIVE ScanStores(_, _, _)
ScanStores(stores, i, deps) ==
    IF i > Len(stores)
    THEN [ok |-> \E q \in DOMAIN deps : Len(deps[q]) > 0, deps |-> deps]
    ELSE LET st == stores[i]
         IN  IF ~st.isCandidate \/ ~st.isBinOp
             THEN ScanStores(stores, i + 1, deps)
             ELSE LET r == ScanOperands(st.ptr, st.operands, 1, FALSE,
                                        deps[st.ptr])
                      d2 == [deps EXCEPT ![st.ptr] = r.deps]
                  IN  IF r.fail THEN [ok |-> FALSE, deps |-> d2]
                      ELSE ScanStores(stores, i + 1, d2)

\* The answer taken from the candidates instead of their recorded ranges.
PopulateOkWithCandidates(stores) ==
    LET cands == {stores[i].ptr : i \in {k \in 1..Len(stores) :
                                            stores[k].isCandidate}}
        r == ScanStores(stores, 1, [q \in cands |-> << >>])
    IN  [ok |-> cands # {}, deps |-> r.deps]

\* PromotionPtrDeps.insert({PromotionPtrAliasSet[0], {}}) for every set,
\* then populatePromotionPtrDeps.
populatePromotionPtrDeps(stores) ==
    LET cands == {stores[i].ptr : i \in {k \in 1..Len(stores) :
                                            stores[k].isCandidate}}
    IN  ScanStores(stores, 1, [q \in cands |-> << >>])

\* GetStartAndEnd: addresses of StartAddr and of StartAddr + Offset, both
\* as i64.  Addresses are counted in elements of the pointee type.
GetStartAndEnd(dep, base) ==
    [Start |-> base[dep.start], End |-> base[dep.start] + dep.off]

\* OverlapConditionPairs of one candidate: (i, j) with i < j, in the order
\* the two nested loops push them.
PairsOf(depList) ==
    LET idx == {<<i, j>> \in (1..Len(depList)) \X (1..Len(depList)) : i < j}
        Before(x, y) == x[1] < y[1] \/ (x[1] = y[1] /\ x[2] < y[2])
        Rank(x) == Cardinality({y \in idx : Before(y, x)}) + 1
    IN  [n \in 1..Cardinality(idx) |->
            CHOOSE x \in idx : Rank(x) = n]

\* The candidates of PromotionPtrDeps in a fixed iteration order.
RECURSIVE SeqOfSet(_)
SeqOfSet(S) ==
    IF S = {} THEN << >>
    ELSE LET x == CHOOSE y \in S : TRUE
         IN  <<x>> \o SeqOfSet(S \ {x})

\* The pairs of a range of one candidate with a range of the next one.
RECURSIVE CrossCandidatePairsFrom(_, _, _)
CrossCandidatePairsFrom(order, deps, c) ==
    IF c >= Len(order) THEN << >>
    ELSE LET listA == deps[order[c]]
             listB == deps[order[c + 1]]
             prs == SeqOfSet((DOMAIN listA) \X (DOMAIN listB))
         IN  [n \in 1..Len(prs) |->
                 [A |-> listA[prs[n][1]], B |-> listB[prs[n][2]],
                  candA |-> order[c], iA |-> prs[n][1],
                  candB |-> order[c + 1], iB |-> prs[n][2]]]
             \o CrossCandidatePairsFrom(order, deps, c + 1)

\* OverlapConditionPairs: for every candidate of PromotionPtrDeps in turn,
\* the pairs (i, j), i < j, of the ranges recorded under that candidate.
RECURSIVE OverlapConditionPairsFrom(_, _, _)
OverlapConditionPairsFrom(order, deps, c) ==
    IF c > Len(order) THEN << >>
    ELSE LET depList == deps[order[c]]
             prs == PairsOf(depList)
         IN  [n \in 1..Len(prs) |->
                 [A |-> depList[prs[n][1]], B |-> depList[prs[n][2]],
                  candA |-> order[c], iA |-> prs[n][1],
                  candB |-> order[c], iB |-> prs[n][2]]]
             \o OverlapConditionPairsFrom(order, deps, c + 1)

\* The lclicm.or of one pair:
\*   Cmp1 = icmp sgt StartA, EndB ; Cmp2 = icmp slt EndB, StartA
OrOfPair(A, B) ==
    LET Cmp1 == A.Start > B.End
        Cmp2 == B.End < A.Start
    IN  Cmp1 \/ Cmp2

\* Ors for one candidate's list of pairs.
OrsOf(depList, base) ==
    LET prs == PairsOf(depList)
    IN  [n \in 1..Len(prs) |->
            OrOfPair(GetStartAndEnd(depList[prs[n][1]], base),
                     GetStartAndEnd(depList[prs[n][2]], base))]

RECURSIVE ConcatOrs(_, _, _, _)
ConcatOrs(order, deps, base, i) ==
    IF i > Len(order) THEN << >>
    ELSE OrsOf(deps[order[i]], base) \o ConcatOrs(order, deps, base, i + 1)

AllOrs(deps, base) == ConcatOrs(SeqOfSet(DOMAIN deps), deps, base, 1)

OverlapConditionPairs(deps) ==
    OverlapConditionPairsFrom(SeqOfSet(DOMAIN deps), deps, 1)

\* FinalCond: Ors[0] alone, or the lclicm.and chain that starts with
\* Ors[0] and Ors[1] and takes in Ors[2], Ors[3], ...
RECURSIVE AndChain(_, _, _)
AndChain(ors, i, acc) ==
    IF i > Len(ors) THEN acc ELSE AndChain(ors, i + 1, acc /\ ors[i])

FinalCond(ors) ==
    IF Len(ors) = 1 THEN ors[1] ELSE AndChain(ors, 3, ors[1] /\ ors[2])

\* A loop copy as the execution sees it: promoted means the candidate is
\* loaded in the copy's preheader, kept in a PHI, and stored in its exit.
UnpromotedCopy(which) == [which |-> which, promoted |-> FALSE]

\* LoopConditionalLICMPass::optimizeDuplicatedLoop promotes in DuplicatedLoop.
LclicmOptimizedCopy(which) == [which |-> which, promoted |-> TRUE]

LclicmTransformed ==
    PreheaderBranchArgs(UnpromotedCopy("original"),
                        LclicmOptimizedCopy("clone"))

\* The BinaryOperator on i64 values.
Apply(op, x, y) ==
    CASE op = "add" -> x + y
      [] op = "sub" -> x - y

\* Value the store of one trip writes: operands in their order, the load
\* through the candidate reads `cur`, the other load reads mem[q].
StoredValue(st, cur, other) ==
    IF st.operands[1].ptr = st.ptr
    THEN Apply(st.op, cur, other)
    ELSE Apply(st.op, other, cur)

(***************************************************************************)
(* SpecLCLICM: LoopConditionalLICMPass::runOnLoop on the inner loop of     *)
(*     for (j = 0; j < trip; j++) *p = *p <op> q[j];                       *)
(* with p = &a[..] and q = &b[..], then the resulting function executed on *)
(* a memory of MemSize cells.                                              *)
(***************************************************************************)
MemSize == 4

MaxOff == 2

Addrs == 0..(MemSize - 1)

LoadOf(ptr, start, chain, accessible) ==
    [isLoad |-> TRUE, ptr |-> ptr, isGEP |-> TRUE, chain |-> chain,
     start |-> start, accessible |-> accessible]

SingleGEP(off) == <<[single |-> TRUE, rangeMax |-> off, srcBytes |-> 0]>>

ComplexGEP(off) == <<[single |-> FALSE, rangeMax |-> 0, srcBytes |-> off]>>

\* q[j] addressed from a pointer that is itself loaded through a GEP: the
\* walk up the chain multiplies the offsets.
ChainedGEP(off) ==
    <<[single |-> TRUE, rangeMax |-> 1, srcBytes |-> 0],
      [single |-> TRUE, rangeMax |-> off, srcBytes |-> 0]>>

\* The store of the lclicm test: store (load p <op> load q) to p, with the
\* two loads in either operand order.
AccumulateStore(op, pFirst, aOff, bChain) ==
    LET loadP == LoadOf("p", "a", SingleGEP(aOff), TRUE)
        loadQ == LoadOf("q", "b", bChain, TRUE)
    IN  [ptr |-> "p", isCandidate |-> TRUE, isBinOp |-> TRUE, op |-> op,
         operands |-> IF pFirst THEN <<loadP, loadQ>> ELSE <<loadQ, loadP>>]

AcceptedStores(aOff, bOff) ==
    {AccumulateStore(op, pFirst, aOff, SingleGEP(bOff)) :
        op \in {"add", "sub"}, pFirst \in BOOLEAN}
    \cup {AccumulateStore("add", TRUE, aOff, ComplexGEP(bOff)),
          AccumulateStore("add", TRUE, aOff, ChainedGEP(bOff))}

RejectedStores(aOff, bOff) ==
    LET st == AccumulateStore("add", TRUE, aOff, SingleGEP(bOff))
    IN  { [st EXCEPT !.isBinOp = FALSE],
          [st EXCEPT !.operands[2].accessible = FALSE],
          [st EXCEPT !.operands[2].isGEP = FALSE],
          [st EXCEPT !.operands[1].ptr = "r"] }

NoDeps == [q \in {} |-> << >>]

InitLCLICM ==
    /\ \E SA \in Addrs, SB \in Addrs, OA \in 0..1, OB \in 0..MaxOff :
         /\ SA + OA \in Addrs
         /\ SB + OB \in Addrs
         /\ lcBase = [a |-> SA, b |-> SB]
         /\ \E pOff \in 0..OA :
                lcAcc = [P |-> SA + pOff, Q0 |-> SB, trip |-> OB + 1]
         /\ \/ /\ lcLoop \in AcceptedStores(OA, OB)
               /\ lcMem0 \in [Addrs -> 0..1]
            \/ /\ lcLoop \in RejectedStores(OA, OB)
               /\ lcMem0 = [x \in Addrs |-> 1]
    /\ lcMem = lcMem0
    /\ lcPc = "start"
    /\ lcDeps = NoDeps
    /\ lcBranch = NoBranch
    /\ lcOrs = << >>
    /\ lcCond = FALSE
    /\ lcCopy = NoCopy
    /\ lcJ = 0
    /\ lcScalar = 0
    /\ LasbcIdle
    /\ EngineIdle
    /\ PassManagerIdle

\* LoopConditionalLICMPass::runOnLoop, accepted.
LclicmRunOnLoopTransforms ==
    /\ lcPc = "start"
    /\ LET r == populatePromotionPtrDeps(<<lcLoop>>)
       IN  /\ r.ok
           /\ lcDeps' = r.deps
    /\ lcBranch' = LclicmTransformed
    /\ lcPc' = "preheader"
    /\ UNCHANGED <<lcLoop, lcBase, lcAcc, lcMem0, lcMem, lcOrs, lcCond,
                   lcCopy, lcJ, lcScalar>>
    /\ UNCHANGED <<lasbcVars, engineVars, pmVars>>

\* LoopConditionalLICMPass::runOnLoop, populatePromotionPtrDeps failed.
LclicmRunOnLoopRejects ==
    /\ lcPc = "start"
    /\ ~populatePromotionPtrDeps(<<lcLoop>>).ok
    /\ lcPc' = "rejected"
    /\ UNCHANGED <<lcLoop, lcBase, lcAcc, lcMem0, lcMem, lcDeps, lcBranch,
                   lcOrs, lcCond, lcCopy, lcJ, lcScalar>>
    /\ UNCHANGED <<lasbcVars, engineVars, pmVars>>

\* Execution reaches the preheader's terminator.
LclicmTakeBranch ==
    /\ lcPc = "preheader"
    /\ lcOrs' = AllOrs(lcDeps, lcBase)
    /\ lcCond' = FinalCond(lcOrs')
    /\ lcCopy' = IF lcCond' THEN lcBranch.TrueDest ELSE lcBranch.FalseDest
    /\ lcPc' = IF lcCopy'.promoted THEN "cloneEntry" ELSE "loop"
    /\ UNCHANGED <<lcLoop, lcBase, lcAcc, lcMem0, lcMem, lcDeps, lcBranch,
                   lcJ, lcScalar>>
    /\ UNCHANGED <<lasbcVars, engineVars, pmVars>>

\* Preheader of the promoted copy: %.promoted = load p.
LclicmPromotedLoad ==
    /\ lcPc = "cloneEntry"
    /\ lcScalar' = lcMem[lcAcc.P]
    /\ lcPc' = "loop"
    /\ UNCHANGED <<lcLoop, lcBase, lcAcc, lcMem0, lcMem, lcDeps, lcBranch,
                   lcOrs, lcCond, lcCopy, lcJ>>
    /\ UNCHANGED <<lasbcVars, engineVars, pmVars>>

\* One trip of the entered copy.
LclicmIterate ==
    /\ lcPc = "loop"
    /\ LET other == lcMem[lcAcc.Q0 + lcJ]
       IN  IF lcCopy.promoted
           THEN /\ lcScalar' = StoredValue(lcLoop, lcScalar, other)
                /\ UNCHANGED lcMem
           ELSE /\ lcMem' = [lcMem EXCEPT ![lcAcc.P] =
                                StoredValue(lcLoop, lcMem[lcAcc.P], other)]
                /\ UNCHANGED lcScalar
    /\ lcJ' = lcJ + 1
    /\ lcPc' = IF lcJ' < lcAcc.trip THEN "loop"
               ELSE IF lcCopy.promoted THEN "cloneExit" ELSE "done"
    /\ UNCHANGED <<lcLoop, lcBase, lcAcc, lcMem0, lcDeps, lcBranch, lcOrs,
                   lcCond, lcCopy>>
    /\ UNCHANGED <<lasbcVars, engineVars, pmVars>>

\* Exit block of the promoted copy: store the PHI's final value to p.
LclicmPromotedStore ==
    /\ lcPc = "cloneExit"
    /\ lcMem' = [lcMem EXCEPT ![lcAcc.P] = lcScalar]
    /\ lcPc' = "done"
    /\ UNCHANGED <<lcLoop, lcBase, lcAcc, lcMem0, lcDeps, lcBranch, lcOrs,
                   lcCond, lcCopy, lcJ, lcScalar>>
    /\ UNCHANGED <<lasbcVars, engineVars, pmVars>>

NextLCLICM ==
    \/ LclicmRunOnLoopTransforms
    \/ LclicmRunOnLoopRejects
    \/ LclicmTakeBranch
    \/ LclicmPromotedLoad
    \/ LclicmIterate
    \/ LclicmPromotedStore

SpecLCLICM == InitLCLICM /\ [][NextLCLICM]_vars

\* The loop before the pass ran: a load and a store through p every trip.
RECURSIVE RunReadModifyWrite(_, _, _, _)
RunReadModifyWrite(mem, st, acc, j) ==
    IF j >= acc.trip THEN mem
    ELSE RunReadModifyWrite(
             [mem EXCEPT ![acc.P] = StoredValue(st, mem[acc.P],
                                                mem[acc.Q0 + j])],
             st, acc, j + 1)

UntransformedMemory == RunReadModifyWrite(lcMem0, lcLoop, lcAcc, 0)

LclicmBranchTaken == lcPc \in {"cloneEntry", "loop", "cloneExit", "done"}

\* C1: the copy with the promoted accumulator is the one entered when the
\* guard is true, the copy that loads and stores through the candidate
\* address every trip is the one entered when it is false.
C1_PromotedCopyIffGuardTrue ==
    LclicmBranchTaken => (lcCopy.promoted <=> lcCond)

\* C2: for every initial memory and every placement of the candidate range
\* and the dependency range, the transformed function leaves the memory the
\* loop left before the pass.
C2_SameFinalMemory ==
    (lcPc = "done") => (lcMem = UntransformedMemory)

\* C3: the predicate emitted for a pair of ranges A, B is
\* (StartA > EndB) OR (EndA < StartB): true exactly when they are disjoint.
C3_PairPredicateIsDisjointness ==
    LclicmBranchTaken =>
        \A q \in DOMAIN lcDeps :
            LET prs == PairsOf(lcDeps[q])
                ors == OrsOf(lcDeps[q], lcBase)
            IN  \A n \in 1..Len(prs) :
                    LET A == GetStartAndEnd(lcDeps[q][prs[n][1]], lcBase)
                        B == GetStartAndEnd(lcDeps[q][prs[n][2]], lcBase)
                    IN  ors[n] <=> (A.Start > B.End \/ A.End < B.Start)

(***************************************************************************)
(* The engine.  F is the function (each block's successors, PHI nodes and  *)
(* landing pad), LI its LoopInfo.  Blocks, loops and values are named by   *)
(* strings; a value is [id, def] with def the block that defines it, or "" *)
(* for a constant or an argument.                                          *)
(***************************************************************************)
Range(s) == {s[i] : i \in DOMAIN s}

Blocks(f) == DOMAIN f.succ

predecessors(f, BB) == {p \in Blocks(f) : BB \in Range(f.succ[p])}

Loops(li) == DOMAIN li.parent

getSubLoops(li, L) == {m \in Loops(li) : li.parent[m] = L}

RECURSIVE getLoopsInPreorder(_, _), PreorderOfEach(_, _)
getLoopsInPreorder(li, L) ==
    <<L>> \o PreorderOfEach(li, SeqOfSet(getSubLoops(li, L)))

PreorderOfEach(li, ls) ==
    IF ls = << >> THEN << >>
    ELSE getLoopsInPreorder(li, Head(ls)) \o PreorderOfEach(li, Tail(ls))

\* L and the loops around it.
RECURSIVE EnclosingLoops(_, _)
EnclosingLoops(li, L) ==
    IF L = "" THEN {} ELSE {L} \cup EnclosingLoops(li, li.parent[L])

\* LoopInfo::getLoopFor: the innermost loop BB is in, "" for none.
getLoopFor(li, BB) ==
    LET ls == {l \in Loops(li) : BB \in li.blocks[l]}
    IN  IF ls = {} THEN ""
        ELSE CHOOSE l \in ls : \A m \in ls : li.blocks[l] \subseteq li.blocks[m]

\* Loop::addBasicBlockToLoop: into L and every loop around it.
addBasicBlockToLoop(li, L, BB) ==
    [li EXCEPT !.blocks =
        [m \in Loops(li) |->
            IF m \in EnclosingLoops(li, L) THEN li.blocks[m] \cup {BB}
            ELSE li.blocks[m]]]

\* The new block left out of every loop.
AddToNoLoop(li, Old, New) == li

AddToLoopOf(li, Old, New) ==
    IF getLoopFor(li, Old) = "" THEN li
    ELSE addBasicBlockToLoop(li, getLoopFor(li, Old), New)

\* Loop::getLoopPreheader: the only predecessor of the header outside the
\* loop, when the header is its only successor.
getLoopPreheader(f, li, L) ==
    LET outs == predecessors(f, li.header[L]) \ li.blocks[L]
    IN  IF Cardinality(outs) = 1 /\ \A p \in outs : Len(f.succ[p]) = 1
        THEN CHOOSE p \in outs : TRUE
        ELSE ""

ExitBlockSet(f, li, L) ==
    {b \in Blocks(f) \ li.blocks[L] : predecessors(f, b) \cap li.blocks[L] # {}}

getUniqueExitBlocks(f, li, L) == SeqOfSet(ExitBlockSet(f, li, L))

\* The edges that leave the loop: <<block, successor index>>.
ExitEdges(f, li, L) ==
    {e \in UNION {{<<b, i>> : i \in DOMAIN f.succ[b]} : b \in li.blocks[L]} :
        f.succ[e[1]][e[2]] \notin li.blocks[L]}

\* Loop::getExitingBlock is non-null.
HasExitingBlock(f, li, L) == Cardinality({e[1] : e \in ExitEdges(f, li, L)}) = 1

\* Loop::getExitBlock is non-null: one edge leaves the loop.
HasExitBlock(f, li, L) == Cardinality(ExitEdges(f, li, L)) = 1

isLoopSimplifyForm(f, li, L) ==
    /\ getLoopPreheader(f, li, L) # ""
    /\ Cardinality(predecessors(f, li.header[L]) \cap li.blocks[L]) = 1
    /\ \A b \in ExitBlockSet(f, li, L) : predecessors(f, b) \subseteq li.blocks[L]

\* PHINode::getIncomingValueForBlock: the first entry for BB.
getIncomingValueForBlock(PN, BB) ==
    LET i == CHOOSE n \in DOMAIN PN.inc :
                 /\ PN.inc[n].blk = BB
                 /\ \A k \in 1..(n - 1) : PN.inc[k].blk # BB
    IN  PN.inc[i].val

addIncoming(PN, V, BB) ==
    [PN EXCEPT !.inc = Append(@, [val |-> V, blk |-> BB])]

\* Value::replaceAllUsesWith, over the uses the function keeps: PHI entries.
replaceAllUsesWith(f, Old, New) ==
    [f EXCEPT !.phi =
        [b \in Blocks(f) |->
            [i \in DOMAIN f.phi[b] |->
                [f.phi[b][i] EXCEPT !.inc =
                    [n \in DOMAIN f.phi[b][i].inc |->
                        IF f.phi[b][i].inc[n].val = Old
                        THEN [f.phi[b][i].inc[n] EXCEPT !.val = New]
                        ELSE f.phi[b][i].inc[n]]]]]]

\* SplitEdge(Preheader, Header): the preheader has one successor, so the
\* block is split before its terminator; the new block takes the branch and
\* the header's PHI entries.
SplitEdge(f, li, BB) ==
    LET New == BB \o ".split"
        all == Blocks(f) \cup {New}
    IN  [New |-> New,
         F |-> [succ |-> [b \in all |->
                    IF b = BB THEN <<New>>
                    ELSE IF b = New THEN f.succ[BB] ELSE f.succ[b]],
                phi |-> [b \in all |->
                    IF b = New THEN << >>
                    ELSE IF b \in Range(f.succ[BB])
                    THEN [i \in DOMAIN f.phi[b] |->
                            [f.phi[b][i] EXCEPT !.inc =
                                [n \in DOMAIN f.phi[b][i].inc |->
                                    IF f.phi[b][i].inc[n].blk = BB
                                    THEN [f.phi[b][i].inc[n] EXCEPT !.blk = New]
                                    ELSE f.phi[b][i].inc[n]]]]
                    ELSE f.phi[b]],
                lpad |-> f.lpad],
         LI |-> AddToLoopOf(li, BB, New)]

\* SplitBlockPredecessors(BB, all predecessors, ".ld-lcssa", PreserveLCSSA):
\* the predecessors branch to the new block, which branches to BB; every
\* PHI of BB moves to the new block and leaves a one-entry PHI behind; a
\* landing pad moves to the new block.
SplitBlockPredecessors(f, li, BB) ==
    LET New == BB \o ".ld-lcssa"
        all == Blocks(f) \cup {New}
        hasLPad == BB \in DOMAIN f.lpad
        f2 == [succ |-> [b \in all |->
                    IF b = New THEN <<BB>>
                    ELSE [i \in DOMAIN f.succ[b] |->
                            IF f.succ[b][i] = BB THEN New ELSE f.succ[b][i]]],
               phi |-> [b \in all |->
                    IF b = New
                    THEN [i \in DOMAIN f.phi[BB] |->
                            [id |-> f.phi[BB][i].id \o ".ph",
                             inc |-> f.phi[BB][i].inc]]
                    ELSE IF b = BB
                    THEN [i \in DOMAIN f.phi[BB] |->
                            [id |-> f.phi[BB][i].id,
                             inc |-> <<[val |-> [id |-> f.phi[BB][i].id \o ".ph",
                                                 def |-> New],
                                        blk |-> New]>>]]
                    ELSE f.phi[b]],
               lpad |-> IF hasLPad
                        THEN [b \in (DOMAIN f.lpad \ {BB}) \cup {New} |->
                                IF b = New
                                THEN [id |-> f.lpad[BB].id \o ".ld-lcssa",
                                      def |-> New]
                                ELSE f.lpad[b]]
                        ELSE f.lpad]
    IN  [F |-> IF hasLPad
               THEN replaceAllUsesWith(f2, f.lpad[BB], f2.lpad[New])
               ELSE f2,
         LI |-> AddToLoopOf(li, BB, New)]

\* LoopDuplicationPass::splitExitEdges
RECURSIVE splitExitEdges(_, _, _, _)
splitExitEdges(f, li, ExitBlocks, I) ==
    IF I > Len(ExitBlocks) THEN [F |-> f, LI |-> li]
    ELSE LET r == SplitBlockPredecessors(f, li, ExitBlocks[I])
         IN  splitExitEdges(r.F, r.LI, ExitBlocks, I + 1)

(***************************************************************************)
(* LoopDuplicationPass::transformCurrentLoop, step by step.  t carries the *)
(* pass object's fields and the locals of the function; t.log is the list  *)
(* of the calls made so far.                                               *)
(***************************************************************************)
\* The k-th duplication names its clones with a suffix of its own.
CloneSuffix(k) == ".ld.clone" \o (IF k = 1 THEN "" ELSE ToString(k))

\* VMap: blocks of LoopBBs and the values they define.
InVMap(t, V) == V.def \in Range(t.LoopBBs)

ClonedValue(t, V) == [id |-> V.id \o t.Suffix, def |-> V.def \o t.Suffix]

MapValue(t, V) == IF InVMap(t, V) THEN ClonedValue(t, V) ELSE V

MapBlock(t, BB) == IF BB \in Range(t.LoopBBs) THEN BB \o t.Suffix ELSE BB

\* The list of exit blocks taken before splitExitEdges and not recomputed.
CollectLoopBBsWithoutRecomputing(t) ==
    LET s == SplitEdge(t.F, t.LI, t.Preheader)
        exits == getUniqueExitBlocks(s.F, s.LI, t.CurrentLoop)
        e == splitExitEdges(s.F, s.LI, exits, 1)
    IN  [t EXCEPT !.F = e.F, !.LI = e.LI, !.NewPreheader = s.New,
                  !.ExitBlocks = exits,
                  !.LoopBBs = <<s.New>>
                              \o SeqOfSet(t.LI.blocks[t.CurrentLoop])
                              \o exits,
                  !.log = @ \o <<"SplitEdge", "splitExitEdges">>]

\* NewPreheader, the loop's blocks, the exit blocks after splitExitEdges.
CollectLoopBBs(t) ==
    LET s == SplitEdge(t.F, t.LI, t.Preheader)
        e == splitExitEdges(s.F, s.LI,
                 getUniqueExitBlocks(s.F, s.LI, t.CurrentLoop), 1)
        exits == getUniqueExitBlocks(e.F, e.LI, t.CurrentLoop)
    IN  [t EXCEPT !.F = e.F, !.LI = e.LI, !.NewPreheader = s.New,
                  !.ExitBlocks = exits,
                  !.LoopBBs = <<s.New>>
                              \o SeqOfSet(t.LI.blocks[t.CurrentLoop])
                              \o exits,
                  !.log = @ \o <<"SplitEdge", "splitExitEdges">>]

\* CloneBasicBlock for every block of LoopBBs: the copies still refer to
\* the original blocks and values.
CloneBasicBlocks(t) ==
    LET f == t.F
        old == Range(t.LoopBBs)
        new == {b \o t.Suffix : b \in old}
        Orig(c) == CHOOSE b \in old : b \o t.Suffix = c
        all == Blocks(f) \cup new
    IN  [t EXCEPT
          !.NewBBs = [i \in DOMAIN t.LoopBBs |-> t.LoopBBs[i] \o t.Suffix],
          !.F = [succ |-> [b \in all |->
                     IF b \in new THEN f.succ[Orig(b)] ELSE f.succ[b]],
                 phi |-> [b \in all |->
                     IF b \in new
                     THEN [i \in DOMAIN f.phi[Orig(b)] |->
                             [id |-> f.phi[Orig(b)][i].id \o t.Suffix,
                              inc |-> f.phi[Orig(b)][i].inc]]
                     ELSE f.phi[b]],
                 lpad |-> [b \in DOMAIN f.lpad
                                \cup {c \in new : Orig(c) \in DOMAIN f.lpad} |->
                     IF b \in new
                     THEN [id |-> f.lpad[Orig(b)].id \o t.Suffix, def |-> b]
                     ELSE f.lpad[b]]],
          !.log = Append(@, "CloneBasicBlock")]

\* cloneLoop(CurrentLoop, ParentLoop, VMap, LI, LPPM), and the duplicated
\* preheader added to the parent loop.
cloneLoop(t) ==
    LET li == t.LI
        L == t.CurrentLoop
        ParentLoop == li.parent[L]
        old == Range(getLoopsInPreorder(li, L))
        new == {m \o t.Suffix : m \in old}
        Orig(c) == CHOOSE m \in old : m \o t.Suffix = c
        all == Loops(li) \cup new
        cloned == {b \o t.Suffix : b \in li.blocks[L]} \cup {t.NewBBs[1]}
    IN  [t EXCEPT
          !.DuplicatedLoop = L \o t.Suffix,
          !.LI = [parent |-> [m \in all |->
                      IF m \in new
                      THEN IF Orig(m) = L THEN ParentLoop
                           ELSE li.parent[Orig(m)] \o t.Suffix
                      ELSE li.parent[m]],
                  header |-> [m \in all |->
                      IF m \in new THEN li.header[Orig(m)] \o t.Suffix
                      ELSE li.header[m]],
                  blocks |-> [m \in all |->
                      IF m \in new
                      THEN {b \o t.Suffix : b \in li.blocks[Orig(m)]}
                      ELSE IF m \in EnclosingLoops(li, ParentLoop)
                      THEN li.blocks[m] \cup cloned
                      ELSE li.blocks[m]]],
          !.log = Append(@, "cloneLoop")]

\* Unmapped variant of the value added for NewExit.
SameIncomingForNewExit(t, V) == V

\* The value added to a PHI of ExitSucc for NewExit: VMap's image of the
\* value coming from the original exit block, or that value itself.
IncomingForNewExit(t, V) == IF InVMap(t, V) THEN ClonedValue(t, V) ELSE V

\* The PHI created for a landing pad in NewExit: every predecessor's
\* landing pad is replaced by the PHI and becomes its entry.
RECURSIVE AddLandingPadEntries(_, _, _, _)
AddLandingPadEntries(f, ExitSucc, preds, PN) ==
    IF preds = << >> THEN f
    ELSE LET BB == Head(preds)
             LPI == f.lpad[BB]
             g == replaceAllUsesWith(f, LPI, PN)
             last == Len(g.phi[ExitSucc])
         IN  AddLandingPadEntries(
                 [g EXCEPT !.phi[ExitSucc][last] =
                               addIncoming(g.phi[ExitSucc][last], LPI, BB)],
                 ExitSucc, Tail(preds), PN)

\* One exit block: its clone joins the exit block's loop, and the PHIs of
\* the clone's successor get an entry for the clone.
ExtendExitSucc(t, f, li, EB) ==
    LET NewExit == MapBlock(t, EB)
        \* assert(NewExit->getTerminator()->getNumSuccessors() == 1)
        asserted == Len(f.succ[NewExit]) = 1
        ExitSucc == f.succ[NewExit][1]
        f2 == [f EXCEPT !.phi[ExitSucc] =
                 [i \in DOMAIN f.phi[ExitSucc] |->
                     addIncoming(f.phi[ExitSucc][i],
                         IncomingForNewExit(t,
                             getIncomingValueForBlock(f.phi[ExitSucc][i], EB)),
                         NewExit)]]
        PN == [id |-> "lpad.phi" \o t.Suffix, def |-> ExitSucc]
    IN  [F |-> IF ~asserted THEN f
               ELSE IF NewExit \in DOMAIN f2.lpad
               THEN AddLandingPadEntries(
                        [f2 EXCEPT !.phi[ExitSucc] =
                            Append(f2.phi[ExitSucc],
                                   [id |-> PN.id, inc |-> << >>])],
                        ExitSucc, SeqOfSet(predecessors(f2, ExitSucc)), PN)
               ELSE f2,
         LI |-> AddToLoopOf(li, EB, NewExit),
         asserted |-> asserted]

RECURSIVE ExtendExitSuccs(_, _, _, _)
ExtendExitSuccs(t, f, li, EBI) ==
    IF EBI > Len(t.ExitBlocks) THEN [F |-> f, LI |-> li, asserted |-> TRUE]
    ELSE LET r == ExtendExitSucc(t, f, li, t.ExitBlocks[EBI])
             rest == ExtendExitSuccs(t, r.F, r.LI, EBI + 1)
         IN  [rest EXCEPT !.asserted = @ /\ r.asserted]

UpdateExitSuccPHIs(t) ==
    LET r == ExtendExitSuccs(t, t.F, t.LI, 1)
    IN  [t EXCEPT !.F = r.F, !.LI = r.LI, !.asserted = r.asserted,
                  !.log = Append(@, "addIncoming")]

\* The remapping with the PHI operands mapped and the branch targets left
\* as CloneBasicBlock copied them.
RemapValuesOnly(t) ==
    LET f == t.F
        new == Range(t.NewBBs)
    IN  [t EXCEPT
          !.F = [f EXCEPT
                  !.phi = [b \in Blocks(f) |->
                      IF b \in new
                      THEN [i \in DOMAIN f.phi[b] |->
                              [id |-> f.phi[b][i].id,
                               inc |-> [n \in DOMAIN f.phi[b][i].inc |->
                                   [val |-> MapValue(t, f.phi[b][i].inc[n].val),
                                    blk |-> MapBlock(t, f.phi[b][i].inc[n].blk)]]]]
                      ELSE f.phi[b]]],
          !.log = Append(@, "RemapInstruction")]

\* RemapInstruction over the cloned blocks: successors, PHI values and PHI
\* blocks go through VMap; what VMap does not hold stays.
RemapInstructions(t) ==
    LET f == t.F
        new == Range(t.NewBBs)
    IN  [t EXCEPT
          !.F = [f EXCEPT
                  !.succ = [b \in Blocks(f) |->
                      IF b \in new
                      THEN [i \in DOMAIN f.succ[b] |-> MapBlock(t, f.succ[b][i])]
                      ELSE f.succ[b]],
                  !.phi = [b \in Blocks(f) |->
                      IF b \in new
                      THEN [i \in DOMAIN f.phi[b] |->
                              [id |-> f.phi[b][i].id,
                               inc |-> [n \in DOMAIN f.phi[b][i].inc |->
                                   [val |-> MapValue(t, f.phi[b][i].inc[n].val),
                                    blk |-> MapBlock(t, f.phi[b][i].inc[n].blk)]]]]
                      ELSE f.phi[b]]],
          !.log = Append(@, "RemapInstruction")]

\* if (MSSAU) MSSAU->updateForClonedLoop(LBRPO, ExitBlocks, VMap)
UpdateForClonedLoop(t) ==
    IF t.MSSAU THEN [t EXCEPT !.log = Append(@, "updateForClonedLoop")] ELSE t

\* emitPreheaderBranch(LoopBBs[0], NewBBs[0], OldBr): the preheader's
\* branch becomes a two-way branch.
CallEmitPreheaderBranch(t) ==
    LET args == PreheaderBranchArgs(t.LoopBBs[1], t.NewBBs[1])
    IN  [t EXCEPT !.F.succ[t.Preheader] = <<args.TrueDest, args.FalseDest>>,
                  !.OverlapConditionPairs =
                      IF t.strategy = "LCLICM"
                      THEN OverlapConditionPairs(t.PromotionPtrDeps)
                      ELSE << >>,
                  !.log = Append(@, "emitPreheaderBranch")]

\* optimizeDuplicatedLoop(): LASBC rewrites the loop that owns IV, LCLICM
\* promotes in DuplicatedLoop every set of PromotionPtrMustAliasSets, the
\* sets whose first pointers runOnLoop made the keys of PromotionPtrDeps.
CallOptimizeDuplicatedLoop(t) ==
    [t EXCEPT !.optimized = IF t.strategy = "LASBC" THEN t.CurrentLoop
                            ELSE t.DuplicatedLoop,
              !.promoted = IF t.strategy = "LCLICM"
                           THEN DOMAIN t.PromotionPtrDeps
                           ELSE {},
              !.log = Append(@, "optimizeDuplicatedLoop")]

\* if (MSSAU) MSSAU->updateExitBlocksForClonedLoop(ExitBlocks, VMap, *DT)
UpdateExitBlocksForClonedLoop(t) ==
    IF t.MSSAU
    THEN [t EXCEPT !.log = Append(@, "updateExitBlocksForClonedLoop")]
    ELSE t

\* Marks the original loop and its inner loops only.
MarkCurrentLoopOnly(t) ==
    [t EXCEPT !.ProcessedLoops =
                  @ \cup Range(getLoopsInPreorder(t.LI, t.CurrentLoop)),
              !.log = Append(@, "ProcessedLoops.insert")]

\* Marks the duplicated loop and its inner loops only.
MarkDuplicatedLoopOnly(t) ==
    [t EXCEPT !.ProcessedLoops =
                  @ \cup Range(getLoopsInPreorder(t.LI, t.DuplicatedLoop)),
              !.log = Append(@, "ProcessedLoops.insert")]

\* Marks the loops around the original loop as well.
MarkEnclosingLoopsToo(t) ==
    [t EXCEPT !.ProcessedLoops =
                  @ \cup Range(getLoopsInPreorder(t.LI, t.CurrentLoop))
                    \cup Range(getLoopsInPreorder(t.LI, t.DuplicatedLoop))
                    \cup EnclosingLoops(t.LI, t.CurrentLoop),
              !.log = Append(@, "ProcessedLoops.insert")]

\* Mark the two loops, and all of their inner loops as processed.
MarkProcessed(t) ==
    [t EXCEPT !.ProcessedLoops =
                  @ \cup Range(getLoopsInPreorder(t.LI, t.CurrentLoop))
                    \cup Range(getLoopsInPreorder(t.LI, t.DuplicatedLoop)),
              !.log = Append(@, "ProcessedLoops.insert")]

\* The steps with the strategy's two operations exchanged.
OptimizeBeforeEmit(t) ==
    MarkProcessed(
    UpdateExitBlocksForClonedLoop(
    CallEmitPreheaderBranch(
    CallOptimizeDuplicatedLoop(
    UpdateForClonedLoop(
    RemapInstructions(
    UpdateExitSuccPHIs(
    cloneLoop(
    CloneBasicBlocks(
    CollectLoopBBs(t))))))))))

transformCurrentLoop(t) ==
    MarkProcessed(
    UpdateExitBlocksForClonedLoop(
    CallOptimizeDuplicatedLoop(
    CallEmitPreheaderBranch(
    UpdateForClonedLoop(
    RemapInstructions(
    UpdateExitSuccPHIs(
    cloneLoop(
    CloneBasicBlocks(
    CollectLoopBBs(t))))))))))

(***************************************************************************)
(* The entry points.  q is what the pass manager and the analyses answer   *)
(* for the call: whether MemorySSA is there, and the views of the loop the *)
(* strategy's candidacy looks at.                                          *)
(***************************************************************************)
NewCall(s, f, li, pl, L, q, k) ==
    [F |-> f, LI |-> li, ProcessedLoops |-> pl, log |-> << >>,
     CurrentLoop |-> L, Preheader |-> getLoopPreheader(f, li, L),
     Header |-> li.header[L], DuplicatedLoop |-> "", NewPreheader |-> "",
     LoopBBs |-> << >>, ExitBlocks |-> << >>, NewBBs |-> << >>,
     Suffix |-> CloneSuffix(k), MSSAU |-> q.mssa, strategy |-> s,
     PromotionPtrDeps |-> NoDeps, OverlapConditionPairs |-> << >>,
     populated |-> FALSE, asserted |-> TRUE, promoted |-> {},
     optimized |-> "", result |-> FALSE, fatal |-> FALSE]

\* DL = &Preheader->getParent()->getParent()->getDataLayout() with no
\* preheader reads through a null pointer: the process ends there, or the
\* read yields some address and the call goes on.
NullPreheaderEnds(t, q) == t.Preheader = "" /\ q.nullRead = "ends"

DereferencedNull(t) ==
    [t EXCEPT !.fatal = TRUE, !.log = Append(@, "null dereference")]

\* The loop recorded as processed before it is known to be a candidate.
MarkBeforeCandidacy(t, q) ==
    IF NullPreheaderEnds(t, q) THEN DereferencedNull(t)
    ELSE IF t.CurrentLoop \in t.ProcessedLoops THEN t
    ELSE LET c == [t EXCEPT !.log = Append(@, "isCurrentLoopACandidate"),
                            !.ProcessedLoops = @ \cup {t.CurrentLoop}]
         IN  IF t.Preheader = "" \/ ~LasbcIsCurrentLoopACandidate(q.phis)
             THEN c
             ELSE [transformCurrentLoop(c) EXCEPT !.result = TRUE]

\* runOnLoop without the look into ProcessedLoops.
RunOnLoopIgnoringTheRecord(t, q) ==
    IF NullPreheaderEnds(t, q) THEN DereferencedNull(t)
    ELSE LET c == [t EXCEPT !.log = Append(@, "isCurrentLoopACandidate")]
         IN  IF t.Preheader = "" \/ ~LasbcIsCurrentLoopACandidate(q.phis)
             THEN c
             ELSE [transformCurrentLoop(c) EXCEPT !.result = TRUE]

\* LASBCPass::runOnLoop.  isPHIAnAppropriateIV wants N in the preheader:
\* without a preheader no PHI is accepted.
LASBCPass_runOnLoop(t, q) ==
    IF NullPreheaderEnds(t, q) THEN DereferencedNull(t)
    ELSE IF t.CurrentLoop \in t.ProcessedLoops THEN t
    ELSE LET c == [t EXCEPT !.log = Append(@, "isCurrentLoopACandidate")]
         IN  IF t.Preheader = "" \/ ~LasbcIsCurrentLoopACandidate(q.phis)
             THEN c
             ELSE [transformCurrentLoop(c) EXCEPT !.result = TRUE]

\* LoopConditionalLICMPass::isCurrentLoopACandidate
LclicmIsCurrentLoopACandidate(t, q) ==
    /\ isLoopSimplifyForm(t.F, t.LI, t.CurrentLoop)
    /\ q.iv
    /\ q.safe
    /\ HasExitingBlock(t.F, t.LI, t.CurrentLoop)
    /\ HasExitBlock(t.F, t.LI, t.CurrentLoop)
    /\ getSubLoops(t.LI, t.CurrentLoop) = {}

\* runOnLoop that turns a loop down when PromotionPtrDeps holds one
\* candidate only.
RunOnLoopWantsTwoCandidates(t, q) ==
    IF NullPreheaderEnds(t, q) THEN DereferencedNull(t)
    ELSE IF t.CurrentLoop \in t.ProcessedLoops THEN t
    ELSE LET c1 == [t EXCEPT !.log = Append(@, "isCurrentLoopACandidate")]
             c2 == [c1 EXCEPT !.log = Append(@, "collectPromotionCandidates")]
             c3 == [c2 EXCEPT !.log = Append(@, "populatePromotionPtrDeps"),
                              !.PromotionPtrDeps =
                                  populatePromotionPtrDeps(q.stores).deps,
                              !.populated =
                                  populatePromotionPtrDeps(q.stores).ok]
         IN  IF ~LclicmIsCurrentLoopACandidate(t, q) THEN c1
             ELSE IF \A i \in DOMAIN q.stores : ~q.stores[i].isCandidate THEN c2
             ELSE IF ~c3.populated THEN c3
             ELSE IF Cardinality(DOMAIN c3.PromotionPtrDeps) = 1 THEN c3
             ELSE [transformCurrentLoop(c3) EXCEPT !.result = TRUE]

\* LoopConditionalLICMPass::runOnLoop
LoopConditionalLICMPass_runOnLoop(t, q) ==
    IF NullPreheaderEnds(t, q) THEN DereferencedNull(t)
    ELSE IF t.CurrentLoop \in t.ProcessedLoops THEN t
    ELSE LET c1 == [t EXCEPT !.log = Append(@, "isCurrentLoopACandidate")]
             c2 == [c1 EXCEPT !.log = Append(@, "collectPromotionCandidates")]
             c3 == [c2 EXCEPT !.log = Append(@, "populatePromotionPtrDeps"),
                              !.PromotionPtrDeps =
                                  populatePromotionPtrDeps(q.stores).deps,
                              !.populated =
                                  populatePromotionPtrDeps(q.stores).ok]
         IN  IF ~LclicmIsCurrentLoopACandidate(t, q) THEN c1
             ELSE IF \A i \in DOMAIN q.stores : ~q.stores[i].isCandidate THEN c2
             ELSE IF ~c3.populated THEN c3
             ELSE [transformCurrentLoop(c3) EXCEPT !.result = TRUE]

\* The MemorySSA test made after the loop was handled.
RunThenRequireMemorySSA(t, q) ==
    LET r == LoopConditionalLICMPass_runOnLoop(t, q)
    IN  IF ~q.mssa
        THEN [r EXCEPT !.fatal = TRUE, !.log = Append(@, "report_fatal_error")]
        ELSE r

\* LoopConditionalLICMPass::run
LoopConditionalLICMPass_run(t, q) ==
    IF ~q.mssa
    THEN [t EXCEPT !.fatal = TRUE, !.log = Append(@, "report_fatal_error")]
    ELSE LoopConditionalLICMPass_runOnLoop(t, q)

\* LASBCPass::run: MemorySSA is optional.
LASBCPass_run(t, q) == LASBCPass_runOnLoop(t, q)

\* What a read through the null Preheader does in the build at hand.
NullReads == {"ends", "goes on"}

\* What LASBC is told about a loop: every answer about MemorySSA, the body's
\* safety and the header's PHIs, and one call that reads a null Preheader.
LasbcQueries ==
    {[mssa |-> m, phis |-> p, iv |-> TRUE, safe |-> s, stores |-> << >>,
      nullRead |-> "goes on"] :
        m \in BOOLEAN, s \in BOOLEAN,
        p \in {<<CanonicalPhi(64)>>,
               <<[CanonicalPhi(64) EXCEPT !.bits = 64]>>,
               << >>}}
    \cup {[mssa |-> TRUE, phis |-> <<CanonicalPhi(64)>>, iv |-> TRUE,
           safe |-> TRUE, stores |-> << >>, nullRead |-> "ends"]}

\* The stores of the loops LCLICM is asked about.
\*   *p = *p + q[j], p from a, q from b
FirstStore == AccumulateStore("add", TRUE, 1, SingleGEP(1))

\*   *r = *r + s[j], r from c, s from d: a second candidate address
SecondStore ==
    [ptr |-> "r", isCandidate |-> TRUE, isBinOp |-> TRUE, op |-> "add",
     operands |-> <<LoadOf("s", "d", SingleGEP(2), TRUE),
                    LoadOf("r", "c", SingleGEP(1), TRUE)>>]

\*   *p = *p - t[k], a second store to the first candidate
FirstStoreAgain ==
    [ptr |-> "p", isCandidate |-> TRUE, isBinOp |-> TRUE, op |-> "sub",
     operands |-> <<LoadOf("p", "a", SingleGEP(1), TRUE),
                    LoadOf("t", "e", ComplexGEP(2), TRUE)>>]

\*   *p = x: the stored value is not a BinaryOperator
PlainStore == [FirstStore EXCEPT !.isBinOp = FALSE]

\*   *p = *p + q[j] with q's base not accessible in the preheader
InaccessibleStore == [FirstStore EXCEPT !.operands[2].accessible = FALSE]

StoreLists ==
    {<< >>,
     <<FirstStore>>,
     <<PlainStore>>,
     <<InaccessibleStore>>,
     <<FirstStore, SecondStore>>,
     <<FirstStore, FirstStoreAgain>>,
     <<PlainStore, SecondStore>>,
     <<SecondStore, InaccessibleStore>>}

\* What LCLICM is told about a loop: every answer of the analyses for a loop
\* with one store, and every list of stores for a loop that passes them.
LclicmQueries ==
    {[mssa |-> m, phis |-> << >>, iv |-> i, safe |-> s,
      stores |-> <<FirstStore>>, nullRead |-> "goes on"] :
        m \in BOOLEAN, i \in BOOLEAN, s \in BOOLEAN}
    \cup {[mssa |-> TRUE, phis |-> << >>, iv |-> TRUE, safe |-> TRUE,
           stores |-> st, nullRead |-> n] :
            st \in StoreLists, n \in NullReads}

\* The functions the pass is run on: loops in loop-simplify form.
Const(c) == [id |-> c, def |-> ""]

Val(id, BB) == [id |-> id, def |-> BB]

Incoming(V, BB) == [val |-> V, blk |-> BB]

NoLandingPads == [b \in {} |-> Const("")]

\* The lasbc test: for.cond / for.body, exit to for.end.
FooFunction(exitPhis) ==
    [F |-> [succ |-> ("entry" :> <<"for.cond">>)
                     @@ ("for.cond" :> <<"for.body", "for.end">>)
                     @@ ("for.body" :> <<"for.cond">>)
                     @@ ("for.end" :> << >>),
            phi |-> ("entry" :> << >>)
                    @@ ("for.cond" :>
                          <<[id |-> "i.0",
                             inc |-> <<Incoming(Const("0"), "entry"),
                                       Incoming(Val("inc", "for.body"),
                                                "for.body")>>]>>)
                    @@ ("for.body" :> << >>)
                    @@ ("for.end" :> exitPhis),
            lpad |-> NoLandingPads],
     LI |-> [parent |-> ("L.for.cond" :> ""),
             header |-> ("L.for.cond" :> "for.cond"),
             blocks |-> ("L.for.cond" :> {"for.cond", "for.body"})]]

\* The lclicm test: outer loop bb1, bb4, bb9, bb7; inner loop bb9.
FnFunction(latchPhis) ==
    [F |-> [succ |-> ("bb0" :> <<"bb1">>)
                     @@ ("bb1" :> <<"bb4", "bb3">>)
                     @@ ("bb3" :> << >>)
                     @@ ("bb4" :> <<"bb9">>)
                     @@ ("bb9" :> <<"bb9", "bb7">>)
                     @@ ("bb7" :> <<"bb1">>),
            phi |-> ("bb0" :> << >>)
                    @@ ("bb1" :>
                          <<[id |-> "i",
                             inc |-> <<Incoming(Const("0"), "bb0"),
                                       Incoming(Val("8", "bb7"), "bb7")>>]>>)
                    @@ ("bb3" :> << >>)
                    @@ ("bb4" :> << >>)
                    @@ ("bb9" :>
                          <<[id |-> "j",
                             inc |-> <<Incoming(Const("0"), "bb4"),
                                       Incoming(Val("15", "bb9"), "bb9")>>]>>)
                    @@ ("bb7" :> latchPhis),
            lpad |-> NoLandingPads],
     LI |-> [parent |-> ("L.bb1" :> "") @@ ("L.bb9" :> "L.bb1"),
             header |-> ("L.bb1" :> "bb1") @@ ("L.bb9" :> "bb9"),
             blocks |-> ("L.bb1" :> {"bb1", "bb4", "bb9", "bb7"})
                        @@ ("L.bb9" :> {"bb9"})]]

\* A loop with two exiting blocks and two exit blocks, one of them a
\* landing pad, that meet in a block with a PHI.
TwoExitsFunction ==
    [F |-> [succ |-> ("entry" :> <<"h">>)
                     @@ ("h" :> <<"body", "exitA">>)
                     @@ ("body" :> <<"h", "exitB">>)
                     @@ ("exitA" :> <<"end">>)
                     @@ ("exitB" :> <<"end">>)
                     @@ ("end" :> << >>),
            phi |-> ("entry" :> << >>)
                    @@ ("h" :>
                          <<[id |-> "i",
                             inc |-> <<Incoming(Const("0"), "entry"),
                                       Incoming(Val("inc", "body"), "body")>>]>>)
                    @@ ("body" :> << >>)
                    @@ ("exitA" :>
                          <<[id |-> "i.lcssa",
                             inc |-> <<Incoming(Val("i", "h"), "h")>>]>>)
                    @@ ("exitB" :> << >>)
                    @@ ("end" :>
                          <<[id |-> "r",
                             inc |-> <<Incoming(Val("i.lcssa", "exitA"), "exitA"),
                                       Incoming(Const("1"), "exitB")>>]>>),
            lpad |-> ("exitB" :> Val("lp", "exitB"))],
     LI |-> [parent |-> ("L.h" :> ""),
             header |-> ("L.h" :> "h"),
             blocks |-> ("L.h" :> {"h", "body"})]]

\* A loop whose two exiting blocks share one exit block.
SharedExitFunction ==
    [F |-> [succ |-> ("entry" :> <<"h">>)
                     @@ ("h" :> <<"body", "exit">>)
                     @@ ("body" :> <<"h", "exit">>)
                     @@ ("exit" :> << >>),
            phi |-> ("entry" :> << >>)
                    @@ ("h" :>
                          <<[id |-> "i",
                             inc |-> <<Incoming(Const("0"), "entry"),
                                       Incoming(Val("inc", "body"), "body")>>]>>)
                    @@ ("body" :> << >>)
                    @@ ("exit" :>
                          <<[id |-> "r",
                             inc |-> <<Incoming(Val("i", "h"), "h"),
                                       Incoming(Const("1"), "body")>>]>>),
            lpad |-> NoLandingPads],
     LI |-> [parent |-> ("L.h" :> ""),
             header |-> ("L.h" :> "h"),
             blocks |-> ("L.h" :> {"h", "body"})]]

\* A loop whose exit block has a predecessor outside the loop: it has a
\* preheader and is not in loop-simplify form.
SideEntryExitFunction ==
    [F |-> [succ |-> ("entry" :> <<"pre", "side">>)
                     @@ ("pre" :> <<"h">>)
                     @@ ("side" :> <<"exit">>)
                     @@ ("h" :> <<"body", "exit">>)
                     @@ ("body" :> <<"h">>)
                     @@ ("exit" :> << >>),
            phi |-> ("entry" :> << >>)
                    @@ ("pre" :> << >>)
                    @@ ("side" :> << >>)
                    @@ ("h" :>
                          <<[id |-> "i",
                             inc |-> <<Incoming(Const("0"), "pre"),
                                       Incoming(Val("inc", "body"), "body")>>]>>)
                    @@ ("body" :> << >>)
                    @@ ("exit" :>
                          <<[id |-> "r",
                             inc |-> <<Incoming(Val("i", "h"), "h"),
                                       Incoming(Const("1"), "side")>>]>>),
            lpad |-> NoLandingPads],
     LI |-> [parent |-> ("L.h" :> ""),
             header |-> ("L.h" :> "h"),
             blocks |-> ("L.h" :> {"h", "body"})]]

\* A loop whose header has two predecessors outside the loop: no preheader.
NoPreheaderFunction ==
    [F |-> [succ |-> ("entry" :> <<"h", "alt">>)
                     @@ ("alt" :> <<"h">>)
                     @@ ("h" :> <<"body", "exit">>)
                     @@ ("body" :> <<"h">>)
                     @@ ("exit" :> << >>),
            phi |-> ("entry" :> << >>)
                    @@ ("alt" :> << >>)
                    @@ ("h" :>
                          <<[id |-> "i",
                             inc |-> <<Incoming(Const("0"), "entry"),
                                       Incoming(Const("0"), "alt"),
                                       Incoming(Val("inc", "body"), "body")>>]>>)
                    @@ ("body" :> << >>)
                    @@ ("exit" :> << >>),
            lpad |-> NoLandingPads],
     LI |-> [parent |-> ("L.h" :> ""),
             header |-> ("L.h" :> "h"),
             blocks |-> ("L.h" :> {"h", "body"})]]

EngineFunctions ==
    {FooFunction(<< >>),
     FooFunction(<<[id |-> "i.lcssa",
                    inc |-> <<Incoming(Val("i.0", "for.cond"), "for.cond")>>]>>),
     FnFunction(<< >>),
     FnFunction(<<[id |-> "x.lcssa",
                   inc |-> <<Incoming(Val("14", "bb9"), "bb9")>>]>>),
     TwoExitsFunction,
     SharedExitFunction,
     SideEntryExitFunction,
     NoPreheaderFunction}

\* Most duplications followed in one behaviour.
MaxTransforms == 2

NoTransform ==
    [CurrentLoop |-> "", DuplicatedLoop |-> "", Preheader |-> "",
     NewPreheader |-> "", ExitBlocks |-> << >>, LoopBBs |-> {},
     Suffix |-> "", optimized |-> "", asserted |-> TRUE,
     simplified |-> TRUE, scope |-> {}, touched |-> {},
     blocksBefore |-> {}, exitEdgesBefore |-> {},
     PromotionPtrDeps |-> NoDeps, OverlapConditionPairs |-> << >>,
     promoted |-> {}]

\* What the loop looked like when the call was made.
LoopShape(f, li, L, q) ==
    [preheader  |-> getLoopPreheader(f, li, L) # "",
     simplified |-> isLoopSimplifyForm(f, li, L),
     safe       |-> q.safe,
     exiting    |-> HasExitingBlock(f, li, L),
     exit       |-> HasExitBlock(f, li, L),
     exitingBlocks |-> Cardinality({e[1] : e \in ExitEdges(f, li, L)}),
     exitBlocks |-> Cardinality(ExitBlockSet(f, li, L)),
     subLoops   |-> getSubLoops(li, L) # {},
     processed  |-> L \in ProcessedLoops]

NoCall ==
    [loop |-> "", mssa |-> TRUE, result |-> FALSE, covered |-> FALSE,
     changed |-> FALSE, stores |-> << >>, phis |-> << >>,
     PromotionPtrDeps |-> NoDeps, populated |-> FALSE,
     shape |-> [preheader |-> TRUE, simplified |-> TRUE, safe |-> TRUE,
                exiting |-> TRUE, exit |-> TRUE, exitingBlocks |-> 1,
                exitBlocks |-> 1, subLoops |-> FALSE,
                processed |-> FALSE]]

\* The blocks of f that g holds with another terminator, other PHIs or
\* another landing pad.
TouchedBlocks(f, g) ==
    {b \in Blocks(f) :
        \/ g.succ[b] # f.succ[b]
        \/ g.phi[b] # f.phi[b]
        \/ (b \in DOMAIN f.lpad) # (b \in DOMAIN g.lpad)
        \/ (b \in DOMAIN f.lpad /\ b \in DOMAIN g.lpad
               /\ f.lpad[b] # g.lpad[b])}

\* The loop, its preheader, its exit blocks and their successors.
LoopScope(f, li, L) ==
    li.blocks[L] \cup {getLoopPreheader(f, li, L)}
       \cup ExitBlockSet(f, li, L)
       \cup UNION {Range(f.succ[b]) : b \in ExitBlockSet(f, li, L)}

Init ==
    /\ \E fn \in EngineFunctions : F = fn.F /\ LI = fn.LI
    /\ strategy \in {"LASBC", "LCLICM"}
    /\ ProcessedLoops = {}
    /\ callLog = << >>
    /\ lastCall = NoCall
    /\ lastTransform = NoTransform
    /\ subjects = << >>
    /\ covered = {}
    /\ fatal = FALSE
    /\ LasbcIdle
    /\ LclicmIdle
    /\ PassManagerIdle

\* L and the loops inside it, by the parent links.
LoopAndSubLoops(li, L) == {m \in Loops(li) : L \in EnclosingLoops(li, m)}

\* The pass's run on loop L of function f, the k-th duplication being next.
RunIn(f, li, pl, k, L, q) ==
    LET t0 == NewCall(strategy, f, li, pl, L, q, k)
    IN  IF strategy = "LASBC" THEN LASBCPass_run(t0, q)
        ELSE LoopConditionalLICMPass_run(t0, q)

\* The pass manager calls the pass on loop L.
Run(L, q) == RunIn(F, LI, ProcessedLoops, Len(subjects) + 1, L, q)

\* The call's outcome becomes the state.
Return(L, q, t) ==
    /\ F' = t.F
    /\ LI' = t.LI
    /\ ProcessedLoops' = t.ProcessedLoops
    /\ callLog' = t.log
    /\ fatal' = t.fatal
    /\ lastCall' = [loop |-> L, mssa |-> q.mssa, result |-> t.result,
                    covered |-> L \in covered,
                    changed |-> <<t.F, t.LI, t.ProcessedLoops>>
                                # <<F, LI, ProcessedLoops>>,
                    stores |-> q.stores, phis |-> q.phis,
                    PromotionPtrDeps |-> t.PromotionPtrDeps,
                    populated |-> t.populated,
                    shape |-> LoopShape(F, LI, L, q)]
    /\ IF t.result
       THEN /\ subjects' = Append(subjects, L)
            /\ covered' = covered \cup LoopAndSubLoops(t.LI, L)
                                  \cup LoopAndSubLoops(t.LI, t.DuplicatedLoop)
            /\ lastTransform' =
                   [CurrentLoop |-> L, DuplicatedLoop |-> t.DuplicatedLoop,
                    Preheader |-> t.Preheader, NewPreheader |-> t.NewPreheader,
                    ExitBlocks |-> t.ExitBlocks, LoopBBs |-> Range(t.LoopBBs),
                    Suffix |-> t.Suffix, optimized |-> t.optimized,
                    asserted |-> t.asserted,
                    simplified |-> isLoopSimplifyForm(F, LI, L),
                    scope |-> LoopScope(F, LI, L),
                    touched |-> TouchedBlocks(F, t.F),
                    blocksBefore |-> Blocks(F),
                    exitEdgesBefore |->
                        {<<e[1], e[2], F.succ[e[1]][e[2]]>> :
                            e \in ExitEdges(F, LI, L)},
                    PromotionPtrDeps |-> t.PromotionPtrDeps,
                    OverlapConditionPairs |-> t.OverlapConditionPairs,
                    promoted |-> t.promoted]
       ELSE UNCHANGED <<subjects, covered, lastTransform>>
    /\ UNCHANGED <<strategy, lasbcVars, lclicmVars, pmVars>>

\* runOnLoop on a loop of ProcessedLoops: returns false.
RunOnLoopAlreadyProcessed ==
    /\ ~fatal
    /\ \E L \in Loops(LI), q \in (IF strategy = "LASBC" THEN LasbcQueries
                                  ELSE LclicmQueries) :
         LET t == Run(L, q)
         IN  L \in ProcessedLoops /\ ~t.fatal /\ Return(L, q, t)

\* runOnLoop on a loop the strategy does not take: returns false.
RunOnLoopNotACandidate ==
    /\ ~fatal
    /\ \E L \in Loops(LI), q \in (IF strategy = "LASBC" THEN LasbcQueries
                                  ELSE LclicmQueries) :
         LET t == Run(L, q)
         IN  /\ L \notin ProcessedLoops /\ ~t.fatal /\ ~t.result
             /\ Return(L, q, t)

\* runOnLoop duplicates the loop: returns true.
RunOnLoopTransforms ==
    /\ ~fatal
    /\ Len(subjects) < MaxTransforms
    /\ \E L \in Loops(LI), q \in (IF strategy = "LASBC" THEN LasbcQueries
                                  ELSE LclicmQueries) :
         LET t == Run(L, q)
         IN  ~t.fatal /\ t.result /\ Return(L, q, t)

\* run without MemorySSA: report_fatal_error ends the process.
RunWithoutMemorySSA ==
    /\ ~fatal
    /\ \E L \in Loops(LI), q \in (IF strategy = "LASBC" THEN LasbcQueries
                                  ELSE LclicmQueries) :
         LET t == Run(L, q)
         IN  /\ t.fatal /\ "report_fatal_error" \in Range(t.log)
             /\ Return(L, q, t)

\* runOnLoop on a loop without a preheader, in a build where the read
\* through the null pointer ends the process.
RunOnLoopWithoutPreheader ==
    /\ ~fatal
    /\ \E L \in Loops(LI), q \in (IF strategy = "LASBC" THEN LasbcQueries
                                  ELSE LclicmQueries) :
         LET t == Run(L, q)
         IN  /\ t.fatal /\ "report_fatal_error" \notin Range(t.log)
             /\ Return(L, q, t)

Next ==
    \/ RunOnLoopAlreadyProcessed
    \/ RunOnLoopNotACandidate
    \/ RunOnLoopTransforms
    \/ RunWithoutMemorySSA
    \/ RunOnLoopWithoutPreheader

Spec == Init /\ [][Next]_vars

\* C7: once an instance has transformed a loop, its later runOnLoop calls
\* for that loop, for the duplicate, or for a sub-loop of either return
\* false and change nothing; no loop is the subject of transformCurrentLoop
\* twice.
C7_TransformedLoopsAreNotTransformedAgain ==
    /\ \A i \in DOMAIN subjects : \A j \in DOMAIN subjects :
           i # j => subjects[i] # subjects[j]
    /\ lastCall.covered => (~lastCall.result /\ ~lastCall.changed)
    /\ covered \subseteq ProcessedLoops

C7_Witness ==
    /\ subjects = <<"L.bb9", "L.bb1">>
    /\ lastCall.loop = "L.bb9.ld.clone.ld.clone2"
    /\ lastCall.covered
    /\ ~lastCall.result

\* C8: after transformCurrentLoop every PHI of a block that follows an exit
\* block of the original loop has exactly one entry per predecessor of its
\* block: one for the exit block, one for the exit block's clone, whose
\* value is the clone of the exit block's value when that value was cloned
\* and the same value otherwise.
C8_ExitSuccPHIsHaveOneEntryPerPredecessor ==
    \A EB \in Range(lastTransform.ExitBlocks) :
        \A S \in Range(F.succ[EB]) :
            \A i \in DOMAIN F.phi[S] :
                LET PN == F.phi[S][i]
                    NewExit == EB \o lastTransform.Suffix
                    At(b) == {n \in DOMAIN PN.inc : PN.inc[n].blk = b}
                    ValueAt(b) == PN.inc[CHOOSE n \in At(b) : TRUE].val
                IN  /\ {EB, NewExit} \subseteq predecessors(F, S)
                    /\ \A p \in predecessors(F, S) : Cardinality(At(p)) = 1
                    /\ \A n \in DOMAIN PN.inc :
                           PN.inc[n].blk \in predecessors(F, S)
                    /\ ValueAt(NewExit) =
                           IF ValueAt(EB).def \in lastTransform.LoopBBs
                           THEN [id |-> ValueAt(EB).id \o lastTransform.Suffix,
                                 def |-> ValueAt(EB).def \o lastTransform.Suffix]
                           ELSE ValueAt(EB)

C8_Witness ==
    /\ lastTransform.CurrentLoop = "L.h"
    /\ lastTransform.ExitBlocks = <<"exitA.ld-lcssa", "exitB.ld-lcssa">>
    /\ F.phi["exitA"] =
           <<[id |-> "i.lcssa",
              inc |-> <<Incoming(Val("i.lcssa.ph", "exitA.ld-lcssa"),
                                 "exitA.ld-lcssa"),
                        Incoming(Val("i.lcssa.ph.ld.clone",
                                     "exitA.ld-lcssa.ld.clone"),
                                 "exitA.ld-lcssa.ld.clone")>>]>>
    /\ Len(F.phi["exitB"]) = 1
    /\ Len(F.phi["exitB"][1].inc) = 2

FirstCall(e) ==
    IF \E n \in DOMAIN callLog : callLog[n] = e
    THEN CHOOSE n \in DOMAIN callLog :
             callLog[n] = e /\ \A k \in 1..(n - 1) : callLog[k] # e
    ELSE 0

StrategyCalls ==
    SelectSeq(callLog, LAMBDA e : e \in {"isCurrentLoopACandidate",
                                          "emitPreheaderBranch",
                                          "optimizeDuplicatedLoop"})

\* C9: in one runOnLoop call the strategy's operations are called in the
\* order isCurrentLoopACandidate, emitPreheaderBranch,
\* optimizeDuplicatedLoop, once each when the loop is transformed; the last
\* two are not called when runOnLoop returns false; updateForClonedLoop
\* comes before emitPreheaderBranch, updateExitBlocksForClonedLoop after
\* optimizeDuplicatedLoop, and the loops are marked processed last.
C9_StrategyOperationsInOrder ==
    /\ lastCall.result =>
         /\ StrategyCalls = <<"isCurrentLoopACandidate", "emitPreheaderBranch",
                              "optimizeDuplicatedLoop">>
         /\ FirstCall("ProcessedLoops.insert") = Len(callLog)
         /\ lastCall.mssa =>
              /\ 0 < FirstCall("updateForClonedLoop")
              /\ FirstCall("updateForClonedLoop")
                     < FirstCall("emitPreheaderBranch")
              /\ FirstCall("optimizeDuplicatedLoop")
                     < FirstCall("updateExitBlocksForClonedLoop")
    /\ ~lastCall.result =>
         /\ FirstCall("emitPreheaderBranch") = 0
         /\ FirstCall("optimizeDuplicatedLoop") = 0
         /\ FirstCall("ProcessedLoops.insert") = 0
    /\ ~lastCall.mssa =>
         /\ FirstCall("updateForClonedLoop") = 0
         /\ FirstCall("updateExitBlocksForClonedLoop") = 0

C9_Witness ==
    /\ lastCall.result
    /\ lastCall.mssa
    /\ strategy = "LCLICM"
    /\ FirstCall("updateForClonedLoop") + 1 = FirstCall("emitPreheaderBranch")
    /\ FirstCall("optimizeDuplicatedLoop") + 2 = Len(callLog)

\* C10: LoopConditionalLICMPass::run without MemorySSA ends in the fatal
\* error before any candidacy check and leaves the function, LoopInfo and
\* ProcessedLoops as they were.
C10_NoMemorySSAIsFatalBeforeAnyChange ==
    [][(strategy = "LCLICM" /\ ~lastCall'.mssa) =>
          /\ fatal'
          /\ callLog' = <<"report_fatal_error">>
          /\ F' = F
          /\ LI' = LI
          /\ ProcessedLoops' = ProcessedLoops
          /\ subjects' = subjects]_vars

C10_Witness ==
    /\ fatal
    /\ strategy = "LCLICM"
    /\ ~lastCall.mssa
    /\ lastCall.loop = "L.bb9"
    /\ ProcessedLoops = {}
    /\ callLog = <<"report_fatal_error">>

\* C11: whenever runOnLoop of either strategy returns false, the function,
\* the loop structure and ProcessedLoops are as they were before the call;
\* and runOnLoop returns true exactly when transformCurrentLoop was executed.
C11_FalseReturnChangesNothing ==
    (lastCall.loop # "" /\ ~fatal) =>
        /\ ~lastCall.result => ~lastCall.changed
        /\ lastCall.result <=> "SplitEdge" \in Range(callLog)

C11_Witness ==
    /\ ~fatal
    /\ Len(subjects) = 1
    /\ lastCall.loop \notin ProcessedLoops
    /\ lastCall.loop # ""
    /\ ~lastCall.result
    /\ ~lastCall.changed
    /\ lastCall.shape.preheader

\* The loops §4.3 and §4.4 exclude by their structure: no preheader, not
\* safe to clone, several exiting blocks, several exit blocks, a sub-loop.
StructurallyExcluded(shape) ==
    \/ ~shape.preheader
    \/ ~shape.safe
    \/ shape.exitingBlocks > 1
    \/ shape.exitBlocks > 1
    \/ shape.subLoops

\* C12: LASBC's runOnLoop returns false, without transforming and without
\* failing, for every loop that has no preheader, is not safe to clone, has
\* more than one exiting block, more than one exit block, or a sub-loop,
\* whatever the header's PHIs look like.
C12_LasbcRejectsExcludedLoops ==
    (strategy = "LASBC" /\ lastCall.loop # "" /\ StructurallyExcluded(lastCall.shape)) =>
        /\ ~fatal
        /\ ~lastCall.result
        /\ ~lastCall.changed

\* C13: LCLICM's runOnLoop returns false without transforming for every
\* loop that is not in simplified form, is not safe to clone, has more than
\* one exiting block, more than one exit block, or a sub-loop.
C13_LclicmRejectsExcludedLoops ==
    (/\ strategy = "LCLICM"
     /\ lastCall.loop # ""
     /\ lastCall.mssa
     /\ ~lastCall.shape.simplified \/ StructurallyExcluded(lastCall.shape)) =>
        /\ ~fatal
        /\ ~lastCall.result
        /\ ~lastCall.changed

\* The same with a preheader: every such loop is turned down.
C13_WithPreheader ==
    (/\ strategy = "LCLICM"
     /\ lastCall.loop # ""
     /\ lastCall.mssa
     /\ lastCall.shape.preheader
     /\ ~lastCall.shape.simplified \/ StructurallyExcluded(lastCall.shape)) =>
        /\ ~fatal
        /\ ~lastCall.result
        /\ ~lastCall.changed

C15_OnlyLoopScopeIsTouched ==
    lastTransform.touched \subseteq lastTransform.scope

\* The same for loops no exit block of which has a predecessor outside the
\* loop.
C15_DedicatedExitsOnly ==
    lastTransform.simplified =>
        lastTransform.touched \subseteq lastTransform.scope

\* The loops of f some runOnLoop call would transform.
TransformableIn(f, li, pl, k) ==
    {L \in Loops(li) :
        \E q \in (IF strategy = "LASBC" THEN LasbcQueries ELSE LclicmQueries) :
            LET t == RunIn(f, li, pl, k, L, q) IN ~t.fatal /\ t.result}

\* The loops some runOnLoop call would transform now.
TransformableLoops ==
    TransformableIn(F, LI, ProcessedLoops, Len(subjects) + 1)

\* The driver: the calls of the pass manager, which does not leave a loop
\* that runOnLoop would transform unvisited forever.  This is weak fairness
\* of RunOnLoopTransforms, written with the state predicate that equals
\* ENABLED RunOnLoopTransforms and with the one variable every such step
\* changes.
DriverVisitsEveryLoop ==
    \/ []<>(fatal \/ Len(subjects) >= MaxTransforms \/ TransformableLoops = {})
    \/ []<><<subjects' # subjects>>_vars

SpecDriver == Init /\ [][Next]_vars /\ DriverVisitsEveryLoop

\* C16: under a driver that keeps calling runOnLoop on every loop, the
\* duplicated ones included, a state is reached from which on every call
\* returns false (or the process has ended); every transformation leaves
\* the transformed loop and the loops it made in ProcessedLoops, and the
\* number of loops that can still be transformed goes down with it.
C16_DriverReachesFixpoint ==
    /\ <>[](fatal \/ TransformableLoops = {})
    /\ [][subjects' # subjects =>
            /\ LoopAndSubLoops(LI', lastTransform'.CurrentLoop)
                  \cup LoopAndSubLoops(LI', lastTransform'.DuplicatedLoop)
                  \subseteq ProcessedLoops'
            /\ Loops(LI') \ Loops(LI) \subseteq ProcessedLoops'
            /\ Cardinality(TransformableIn(F', LI', ProcessedLoops',
                                            Len(subjects') + 1))
                  < Cardinality(TransformableLoops)]_vars

C16_Witness ==
    /\ ~fatal
    /\ Len(subjects) = 2
    /\ TransformableLoops = {}
    /\ Cardinality(Loops(LI)) >= 4
    /\ ~lastCall.result

RecordedRanges(deps) ==
    UNION {{<<c, i>> : i \in DOMAIN deps[c]} : c \in DOMAIN deps}

\* The two ranges the n-th predicate compares.
RangesOfPredicate(pr) == {<<pr.candA, pr.iA>>, <<pr.candB, pr.iB>>}

\* FinalCond over n predicates is their conjunction.
FinalCondIsAnd(n) ==
    \A v \in [1..n -> BOOLEAN] : FinalCond(v) = (\A i \in 1..n : v[i])

\* C18: the LCLICM guard is the AND of one non-overlap predicate for every
\* pair of recorded ranges that belong to different candidate addresses:
\* every such pair has its predicate, and no predicate compares two ranges
\* recorded under the same candidate address.
C18_PredicatesForCrossCandidatePairs ==
    (strategy = "LCLICM" /\ lastTransform.CurrentLoop # "") =>
        LET deps == lastTransform.PromotionPtrDeps
            prs == lastTransform.OverlapConditionPairs
            Cross == {x \in SUBSET RecordedRanges(deps) :
                         /\ Cardinality(x) = 2
                         /\ \A y, z \in x : y # z => y[1] # z[1]}
        IN  /\ \A x \in Cross :
                  Cardinality({n \in DOMAIN prs :
                                  RangesOfPredicate(prs[n]) = x}) = 1
            /\ \A n \in DOMAIN prs : prs[n].candA # prs[n].candB
            /\ FinalCondIsAnd(Len(prs))

\* C18, amended: the guard is the AND of one non-overlap predicate for
\* every pair of ranges recorded under the same candidate address (the
\* ranges of the operands of the stores to that candidate); every such
\* pair has exactly one predicate, and no predicate compares ranges
\* recorded under different candidate addresses.
C18_PredicatesForPairsOfOneCandidate ==
    (strategy = "LCLICM" /\ lastTransform.CurrentLoop # "") =>
        LET deps == lastTransform.PromotionPtrDeps
            prs == lastTransform.OverlapConditionPairs
            Same == {x \in SUBSET RecordedRanges(deps) :
                        /\ Cardinality(x) = 2
                        /\ \A y, z \in x : y[1] = z[1]}
        IN  /\ \A x \in Same :
                  Cardinality({n \in DOMAIN prs :
                                  RangesOfPredicate(prs[n]) = x}) = 1
            /\ \A n \in DOMAIN prs :
                  /\ prs[n].candA = prs[n].candB
                  /\ prs[n].iA < prs[n].iB
                  /\ prs[n].A = deps[prs[n].candA][prs[n].iA]
                  /\ prs[n].B = deps[prs[n].candB][prs[n].iB]
            /\ Len(prs) = Cardinality(Same)
            /\ Len(prs) >= 1
            /\ FinalCondIsAnd(Len(prs))

C18_Witness ==
    /\ strategy = "LCLICM"
    /\ lastTransform.CurrentLoop # ""
    /\ \E c1, c2 \in DOMAIN lastTransform.PromotionPtrDeps :
          /\ c1 # c2
          /\ Len(lastTransform.PromotionPtrDeps[c1]) = 2
          /\ Len(lastTransform.PromotionPtrDeps[c2]) = 2
    /\ Len(lastTransform.OverlapConditionPairs) = 2

\* populatePromotionPtrDeps returned true with one candidate address in
\* PromotionPtrDeps.
ResolvedOneCandidate ==
    /\ strategy = "LCLICM"
    /\ lastCall.loop # ""
    /\ ~fatal
    /\ lastCall.populated
    /\ Cardinality(DOMAIN lastCall.PromotionPtrDeps) = 1

\* C19: when dependency extraction resolves exactly one candidate address,
\* LCLICM's runOnLoop performs no transformation and returns false.
C19_OneCandidateIsNotTransformed ==
    ResolvedOneCandidate => ~lastCall.result /\ ~lastCall.changed

\* C19, amended: when dependency extraction resolves exactly one candidate
\* address, runOnLoop duplicates the loop and returns true; the guard is
\* made of the predicates between the ranges recorded under that
\* candidate, at least the one between its own range and the range of the
\* other operand of its store.
C19_OneCandidateIsTransformed ==
    ResolvedOneCandidate =>
        /\ lastCall.result
        /\ lastCall.changed
        /\ lastTransform.CurrentLoop = lastCall.loop
        /\ Len(F.succ[lastTransform.Preheader]) = 2
        /\ Len(lastTransform.OverlapConditionPairs) >= 1
        /\ \A n \in DOMAIN lastTransform.OverlapConditionPairs :
              LET pr == lastTransform.OverlapConditionPairs[n]
              IN  /\ {pr.candA, pr.candB} = DOMAIN lastCall.PromotionPtrDeps
                  /\ pr.iA # pr.iB

C19_Witness ==
    /\ ResolvedOneCandidate
    /\ lastCall.stores = <<FirstStore>>
    /\ lastCall.result
    /\ Len(lastTransform.OverlapConditionPairs) = 1

\* A store to a candidate address of the shape section 4.4 asks for: the
\* stored value is a BinaryOperator, one operand a load through the
\* candidate itself, the other a load through a GEP chain from a base that
\* is accessible in the preheader.
FitsShape(st) ==
    /\ st.isBinOp
    /\ \E i \in {1, 2} :
          /\ st.operands[i].isLoad
          /\ st.operands[i].ptr = st.ptr
          /\ st.operands[3 - i].isLoad
          /\ st.operands[3 - i].isGEP
          /\ st.operands[3 - i].accessible

\* populatePromotionPtrDeps was called on a loop one of whose stores to a
\* candidate address does not fit.
ScannedAMisfit ==
    /\ strategy = "LCLICM"
    /\ lastCall.loop # ""
    /\ ~fatal
    /\ DOMAIN lastCall.PromotionPtrDeps # {}
    /\ \E i \in DOMAIN lastCall.stores :
          lastCall.stores[i].isCandidate /\ ~FitsShape(lastCall.stores[i])

\* C20: if any store in the loop to a candidate address stores a value that
\* is not a binary operator of a load through the candidate and a load
\* through a GEP from a base available in the preheader, then
\* populatePromotionPtrDeps returns false and the loop is not duplicated,
\* also when another candidate address of the loop fits the shape.
C20_MisfitStoreRejectsTheLoop ==
    ScannedAMisfit =>
        /\ ~lastCall.populated
        /\ ~lastCall.result
        /\ ~lastCall.changed

\* The same for the misfits other than a stored value that is no
\* BinaryOperator: these do make populatePromotionPtrDeps return false.
C20_MisfitBinaryOperatorRejectsTheLoop ==
    (/\ ScannedAMisfit
     /\ \A i \in DOMAIN lastCall.stores : lastCall.stores[i].isBinOp) =>
        /\ ~lastCall.populated
        /\ ~lastCall.result
        /\ ~lastCall.changed

\* C21: whenever LCLICM carries out a transformation, every address that
\* optimizeDuplicatedLoop promotes in the specialized copy has at least one
\* range recorded in PromotionPtrDeps and at least one predicate of the
\* guard compares a range of that address.
C21_PromotedAddressesAreGuarded ==
    (strategy = "LCLICM" /\ lastTransform.CurrentLoop # "") =>
        \A p \in lastTransform.promoted :
            /\ Len(lastTransform.PromotionPtrDeps[p]) >= 1
            /\ \E n \in DOMAIN lastTransform.OverlapConditionPairs :
                  p \in {lastTransform.OverlapConditionPairs[n].candA,
                         lastTransform.OverlapConditionPairs[n].candB}

\* The same for the loops all of whose stores to candidate addresses store
\* a BinaryOperator: there every promoted address is guarded.
C21_GuardedWhenEveryStoreIsABinaryOperator ==
    (/\ strategy = "LCLICM"
     /\ lastCall.result
     /\ \A i \in DOMAIN lastCall.stores : lastCall.stores[i].isBinOp) =>
        \A p \in lastTransform.promoted :
            /\ Len(lastTransform.PromotionPtrDeps[p]) >= 2
            /\ \E n \in DOMAIN lastTransform.OverlapConditionPairs :
                  p = lastTransform.OverlapConditionPairs[n].candA

\* runOnLoop took the loop: transformCurrentLoop ran.
LasbcAccepted == lsPc \notin {"idle", "start", "rejected"}

\* C22: LASBC accepts a 32-bit header PHI as the induction variable only if
\* its back-edge value is an addition of the PHI and an integer constant
\* that has no other use; a PHI updated by another binary operation on the
\* PHI and a constant is rejected.
C22_OnlyAdditionsAreAccepted ==
    LasbcAccepted =>
        /\ lsPhi.bits = IVBits
        /\ lsPhi.iterIsBinOp /\ lsPhi.op0IsPN /\ lsPhi.constOp
        /\ lsPhi.iterUsers = 1
        /\ lsPhi.op = "add"

\* What the code does hold to: a BinaryOperator of the PHI and a constant
\* with one user, whatever its opcode.
C22_BinaryOperatorWithOneUser ==
    LasbcAccepted =>
        /\ lsPhi.bits = IVBits
        /\ lsPhi.iterIsBinOp /\ lsPhi.op0IsPN /\ lsPhi.constOp
        /\ lsPhi.iterUsers = 1

\* The PHI fits every part of the pattern that is not about N.
OtherPartsFit(PN) ==
    isPHIAnAppropriateIV([PN EXCEPT !.nKind = "inst", !.nInvariant = TRUE,
                                    !.nBlock = "preheader"])

\* C23: a loop that fits every other part of the LASBC pattern is accepted
\* when the exit comparison's other operand N is a constant, an argument, a
\* global or an instruction whose block dominates the preheader, and
\* rejected otherwise.
C23_AcceptedIffNIsAvailableInPreheader ==
    (lsPc \notin {"idle", "start"} /\ OtherPartsFit(lsPhi)) =>
        (LasbcAccepted <=> isAccessibleInPreheader(lsPhi.nKind, lsPhi.nBlock))

\* C23, amended: a loop that fits every other part of the LASBC pattern is
\* accepted when N is an instruction that is invariant in the loop and
\* stands in the loop's preheader itself, and rejected otherwise: also when
\* N is a constant, an argument, a global, or an instruction of a block
\* that dominates the preheader without being it.
C23_AcceptedIffNIsInThePreheader ==
    (lsPc \notin {"idle", "start"} /\ OtherPartsFit(lsPhi)) =>
        (LasbcAccepted <=> /\ lsPhi.nKind = "inst"
                           /\ lsPhi.nInvariant
                           /\ lsPhi.nBlock = "preheader")

C23_Witness ==
    /\ lsPc = "rejected"
    /\ OtherPartsFit(lsPhi)
    /\ lsPhi.nKind = "inst"
    /\ lsPhi.nBlock = "dominator"

\* The copy holds one PHI of N's width, seeded with 0 and updated by the
\* IV's operation on that PHI and C; what used the zero-extension uses the
\* PHI; the zero-extension, the 32-bit PHI and its update are gone.
IsSpecializedCopy(insts, PN) ==
    LET orig == LoopInsts(PN)
        wide == {p \in DOMAIN insts :
                    insts[p].opcode = "phi" /\ insts[p].bits = PN.wideBits}
    IN  /\ Cardinality(wide) = 1
        /\ \A p \in wide :
              /\ insts[p].ops[1] = ConstantInt(BVZero(Bytes(PN.wideBits)))
              /\ insts[p].ops[2].k = "inst"
              /\ insts[p].ops[2].id \in DOMAIN insts
              /\ insts[insts[p].ops[2].id]
                    = Instr(PN.op, PN.wideBits,
                            <<Inst(p),
                              ConstantInt(SExt(PN.C, Bytes(PN.wideBits)))>>)
              /\ \A j \in InstUsers(orig, "conv") :
                    /\ j \in DOMAIN insts
                    /\ insts[j].ops =
                          [n \in DOMAIN orig[j].ops |->
                              IF orig[j].ops[n] = Inst("conv")
                              THEN Inst(p) ELSE orig[j].ops[n]]
        /\ \A j \in DOMAIN insts :
              /\ insts[j].opcode # "zext"
              /\ insts[j].bits # IVBits
              /\ \A n \in DOMAIN insts[j].ops : insts[j].ops[n] # UndefValue
        /\ DOMAIN insts \cap {"i.0", "conv", "inc"} = {}

\* The copy holds the loop's instructions as they were before the pass,
\* under their own names or under the clones' names.
IsUnchangedCopy(insts, PN) ==
    \E sfx \in {"", ".ld.clone"} : insts = CloneInsts(LoopInsts(PN), sfx)

\* C24: after a LASBC transformation exactly one of the two copies is
\* specialized (a PHI of N's width seeded with 0 and updated with C, used
\* where the zero-extension was; no zero-extension, no 32-bit IV, no 32-bit
\* update); the other copy still holds the 32-bit IV, its update and the
\* zero-extension unchanged.
C24_ExactlyOneCopyIsSpecialized ==
    LasbcAccepted =>
        \E c, d \in {lsBranch.TrueDest, lsBranch.FalseDest} :
            /\ c # d
            /\ IsSpecializedCopy(c.insts, lsPhi)
            /\ ~IsUnchangedCopy(c.insts, lsPhi)
            /\ IsUnchangedCopy(d.insts, lsPhi)
            /\ ~IsSpecializedCopy(d.insts, lsPhi)
            /\ \E sfx \in {"", ".ld.clone"} :
                   {"i.0" \o sfx, "conv" \o sfx, "inc" \o sfx}
                       \subseteq DOMAIN d.insts

C24_Witness ==
    /\ LasbcAccepted
    /\ lsPc = "exit"
    /\ lsPhi = CanonicalPhi(64)
    /\ lsBranch.TrueDest.which = "original"
    /\ DOMAIN lsBranch.TrueDest.insts
          = {"i.0.lasbc.n", "inc.lasbc", "cmp", "br", "arrayidx", "1", "2",
             "mul", "arrayidx3", "store"}
    /\ "i.0.ld.clone" \in DOMAIN lsBranch.FalseDest.insts

\* C25: ProcessedLoops only grows.  runOnLoop removes nothing; a call that
\* returns false leaves the set as it was; a call that transforms loop L
\* leaves it equal to the set before plus L and the loops inside L plus L's
\* duplicate and the loops inside it; no loop around L is added.
C25_ProcessedLoopsOnlyGrows ==
    [][/\ ProcessedLoops \subseteq ProcessedLoops'
       /\ ~lastCall'.result => ProcessedLoops' = ProcessedLoops
       /\ lastCall'.result =>
             /\ lastTransform'.CurrentLoop = lastCall'.loop
             /\ ProcessedLoops' =
                   ProcessedLoops
                   \cup LoopAndSubLoops(LI', lastCall'.loop)
                   \cup LoopAndSubLoops(LI', lastTransform'.DuplicatedLoop)
             /\ \A P \in EnclosingLoops(LI', lastCall'.loop) \ {lastCall'.loop} :
                   P \in ProcessedLoops' => P \in ProcessedLoops]_vars

C25_Witness ==
    /\ lastCall.result
    /\ lastCall.loop = "L.bb9"
    /\ LI.parent["L.bb9"] = "L.bb1"
    /\ ProcessedLoops = {"L.bb9", "L.bb9.ld.clone"}
    /\ Len(subjects) = 1

\* The clone of a block of the last duplication.
CloneOf(BB) == BB \o lastTransform.Suffix

\* C28: after transformCurrentLoop the loop structure mirrors the original
\* for every cloned block: the duplicated loop has the parent loop of the
\* original (none when the original has none), the clone of every block of
\* the loop is in the duplicated loop, the clone of the new preheader is in
\* the parent loop when there is one, and the clone of every exit block is
\* in the loop its exit block is in.
C28_LoopStructureMirrorsTheOriginal ==
    lastTransform.CurrentLoop # "" =>
        LET L == lastTransform.CurrentLoop
            D == lastTransform.DuplicatedLoop
        IN  /\ D \in Loops(LI) /\ D # L
            /\ LI.parent[D] = LI.parent[L]
            /\ \A BB \in LI.blocks[L] :
                  /\ CloneOf(BB) \in Blocks(F)
                  /\ CloneOf(BB) \in LI.blocks[D]
                  /\ getLoopFor(LI, BB) = L
                        => getLoopFor(LI, CloneOf(BB)) = D
            /\ LI.header[D] = CloneOf(LI.header[L])
            /\ LET NewPreheader == lastTransform.NewPreheader
               IN  /\ CloneOf(NewPreheader) \in Blocks(F)
                   /\ getLoopFor(LI, CloneOf(NewPreheader)) = LI.parent[L]
                   /\ getLoopFor(LI, NewPreheader) = LI.parent[L]
            /\ \A i \in DOMAIN lastTransform.ExitBlocks :
                  LET EB == lastTransform.ExitBlocks[i]
                  IN  /\ CloneOf(EB) \in Blocks(F)
                      /\ getLoopFor(LI, CloneOf(EB)) = getLoopFor(LI, EB)

C28_Witness ==
    /\ lastTransform.CurrentLoop = "L.bb9"
    /\ LI.parent["L.bb9.ld.clone"] = "L.bb1"
    /\ "bb4.split.ld.clone" \in LI.blocks["L.bb1"]
    /\ getLoopFor(LI, "bb7.ld-lcssa.ld.clone") = "L.bb1"
    /\ "bb9.ld.clone" \in LI.blocks["L.bb9.ld.clone"]

\* The clone of a value: the value itself when it is defined outside the
\* duplicated region.
CloneOfValue(V) ==
    IF V.def \in lastTransform.LoopBBs
    THEN [id |-> V.id \o lastTransform.Suffix, def |-> CloneOf(V.def)]
    ELSE V

CloneOfBlock(BB) == IF BB \in lastTransform.LoopBBs THEN CloneOf(BB) ELSE BB

ClonedBBs == {CloneOf(BB) : BB \in lastTransform.LoopBBs}

\* The successors of the exit blocks, where the two copies meet again.
ExitSuccessors ==
    UNION {Range(F.succ[lastTransform.ExitBlocks[i]]) :
              i \in DOMAIN lastTransform.ExitBlocks}

\* The blocks a path from BB goes through before it reaches a block of
\* stops.
RECURSIVE BlocksOnPaths(_, _, _)
BlocksOnPaths(seen, frontier, stops) ==
    IF frontier = {} THEN seen
    ELSE LET next == UNION {Range(F.succ[b]) : b \in frontier}
         IN  BlocksOnPaths(seen \cup frontier,
                           next \ (seen \cup frontier \cup stops), stops)

\* C29: after the remapping every branch target and PHI operand of a cloned
\* block that referred to a block or value of the duplicated region refers
\* to its clone and every other reference is the one of the original; the
\* two copies have no block in common, no edge leads from one copy to the
\* other, the preheader branches to the two copies, and a path that enters
\* a copy stays in it until it reaches a successor of an exit block.
C29_ClonedRegionIsRemapped ==
    lastTransform.CurrentLoop # "" =>
        LET Region == lastTransform.LoopBBs
            NewPreheader == lastTransform.NewPreheader
        IN  /\ \A BB \in Region :
                  /\ CloneOf(BB) \in Blocks(F)
                  /\ DOMAIN F.succ[CloneOf(BB)] = DOMAIN F.succ[BB]
                  /\ \A i \in DOMAIN F.succ[BB] :
                        F.succ[CloneOf(BB)][i] = CloneOfBlock(F.succ[BB][i])
                  /\ DOMAIN F.phi[CloneOf(BB)] = DOMAIN F.phi[BB]
                  /\ \A i \in DOMAIN F.phi[BB] :
                        /\ DOMAIN F.phi[CloneOf(BB)][i].inc
                              = DOMAIN F.phi[BB][i].inc
                        /\ \A n \in DOMAIN F.phi[BB][i].inc :
                              /\ F.phi[CloneOf(BB)][i].inc[n].val
                                    = CloneOfValue(F.phi[BB][i].inc[n].val)
                              /\ F.phi[CloneOf(BB)][i].inc[n].blk
                                    = CloneOfBlock(F.phi[BB][i].inc[n].blk)
            /\ Region \cap ClonedBBs = {}
            /\ \A BB \in Region : Range(F.succ[BB]) \cap ClonedBBs = {}
            /\ \A BB \in ClonedBBs : Range(F.succ[BB]) \cap Region = {}
            /\ Range(F.succ[lastTransform.Preheader])
                  = {NewPreheader, CloneOf(NewPreheader)}
            /\ ExitSuccessors \cap (Region \cup ClonedBBs) = {}
            /\ BlocksOnPaths({}, {NewPreheader}, ExitSuccessors) \subseteq Region
            /\ BlocksOnPaths({}, {CloneOf(NewPreheader)}, ExitSuccessors)
                  \subseteq ClonedBBs

C29_Witness ==
    /\ lastTransform.CurrentLoop = "L.bb9"
    /\ "bb9.ld.clone" \in Range(F.succ["bb9.ld.clone"])
    /\ "bb9" \notin Range(F.succ["bb9.ld.clone"])
    /\ \E i \in DOMAIN F.phi["bb9.ld.clone"] :
          \E n \in DOMAIN F.phi["bb9.ld.clone"][i].inc :
              /\ F.phi["bb9.ld.clone"][i].inc[n].blk = "bb9.ld.clone"
              /\ F.phi["bb9.ld.clone"][i].inc[n].val.def = "bb9.ld.clone"
    /\ \E i \in DOMAIN F.phi["bb9.ld.clone"] :
          \E n \in DOMAIN F.phi["bb9.ld.clone"][i].inc :
              F.phi["bb9.ld.clone"][i].inc[n].val.def
                  \notin lastTransform.LoopBBs \cup ClonedBBs

\* C30: whenever LCLICM's emitPreheaderBranch is reached some candidate has
\* at least two recorded ranges (every candidate has none or at least two,
\* and some store to a candidate stores a BinaryOperator), so the list of
\* predicates is not empty, and the final condition is the
\* single predicate when there is one and the AND of all when there are
\* several.
C30_GuardHasAPredicate ==
    (strategy = "LCLICM" /\ lastTransform.CurrentLoop # "") =>
        LET deps == lastTransform.PromotionPtrDeps
            prs == lastTransform.OverlapConditionPairs
        IN  /\ \E p \in DOMAIN deps : Len(deps[p]) >= 2
            /\ \A p \in DOMAIN deps : Len(deps[p]) # 1
            /\ lastCall.result =>
                  \E i \in DOMAIN lastCall.stores :
                      /\ lastCall.stores[i].isCandidate
                      /\ lastCall.stores[i].isBinOp
            /\ Len(prs) >= 1
            /\ Len(prs) = 1 => \A x \in BOOLEAN : FinalCond(<<x>>) = x
            /\ Len(prs) > 1 =>
                  \A v \in [1..Len(prs) -> BOOLEAN] :
                      FinalCond(v) = (\A i \in 1..Len(prs) : v[i])

\* A loop whose only candidate has a single predicate, one whose candidate
\* has six, and one with a candidate that recorded nothing.
C30_Witness ==
    /\ strategy = "LCLICM"
    /\ lastTransform.CurrentLoop # ""
    /\ \/ Len(lastTransform.OverlapConditionPairs) = 1
          /\ \E p \in DOMAIN lastTransform.PromotionPtrDeps :
                lastTransform.PromotionPtrDeps[p] = << >>
       \/ Len(lastTransform.OverlapConditionPairs) = 6

(***************************************************************************)
(* SpecPassManager: a pipeline that holds one LASBCPass and one            *)
(* LoopConditionalLICMPass and calls them on the loops of one function     *)
(* after the other.  Each pass object owns the ProcessedLoops of its       *)
(* LoopDuplicationPass base; a Loop is known to it by its address, here    *)
(* its name.                                                               *)
(***************************************************************************)
PMStrategies == {"LASBC", "LCLICM"}

\* Functions of the module the pipeline runs on.
MaxFunctions == 2

\* Most duplications followed in one behaviour of the pipeline.
MaxPMTransforms == 2

PMFunctions == {FooFunction(<< >>), FnFunction(<< >>)}

\* What the analyses answer about a loop: a loop the strategy takes, and a
\* loop it does not take.
PMQueries(s) ==
    IF s = "LASBC"
    THEN {[mssa |-> TRUE, phis |-> p, iv |-> TRUE, safe |-> TRUE,
           stores |-> << >>, nullRead |-> "goes on"] :
             p \in {<<CanonicalPhi(64)>>, << >>}}
    ELSE {[mssa |-> TRUE, phis |-> << >>, iv |-> TRUE, safe |-> TRUE,
           stores |-> st, nullRead |-> "goes on"] :
             st \in {<<FirstStore>>, << >>}}

\* LoopInfo of the n-th function: its Loop objects lie at the addresses
\* the Loop objects of the function before had, or at addresses never used.
AllocateLoops(li, reused, n) ==
    LET At(m) == IF m = "" \/ reused THEN m ELSE m \o "@" \o ToString(n)
        Of(a) == CHOOSE m \in Loops(li) : At(m) = a
        all == {At(m) : m \in Loops(li)}
    IN  [parent |-> [a \in all |-> At(li.parent[Of(a)])],
         header |-> [a \in all |-> li.header[Of(a)]],
         blocks |-> [a \in all |-> li.blocks[Of(a)]]]

InitPassManager ==
    /\ \E fn \in PMFunctions : pmF = fn.F /\ pmLI = fn.LI
    /\ pmProcessed = [s \in PMStrategies |-> {}]
    /\ pmFunction = 1
    /\ pmRuns = << >>
    /\ pmLastCall = [by |-> "", loop |-> "", function |-> 0,
                     result |-> FALSE, processed |-> FALSE]
    /\ EngineIdle
    /\ LasbcIdle
    /\ LclicmIdle

\* The pass object of strategy s run on loop L of function f.
RunAs(s, f, li, pl, k, L, q) ==
    LET t0 == NewCall(s, f, li, pl, L, q, k)
    IN  IF s = "LASBC" THEN LASBCPass_run(t0, q)
        ELSE LoopConditionalLICMPass_run(t0, q)

\* The call's outcome: the function, and the ProcessedLoops of the pass
\* object that was called.
PMReturn(s, L, t) ==
    /\ pmF' = t.F
    /\ pmLI' = t.LI
    /\ pmProcessed' = [pmProcessed EXCEPT ![s] = t.ProcessedLoops]
    /\ pmLastCall' = [by |-> s, loop |-> L, function |-> pmFunction,
                      result |-> t.result,
                      processed |-> L \in pmProcessed[s]]
    /\ pmRuns' = IF t.result
                 THEN Append(pmRuns,
                        [by |-> s, loop |-> L, dup |-> t.DuplicatedLoop,
                         function |-> pmFunction,
                         marked |-> LoopAndSubLoops(t.LI, L) \cup
                                    LoopAndSubLoops(t.LI, t.DuplicatedLoop)])
                 ELSE pmRuns
    /\ UNCHANGED <<pmFunction, engineVars, lasbcVars, lclicmVars>>

\* A pass's runOnLoop returns false.
PMRunOnLoopReturnsFalse ==
    \E s \in PMStrategies, L \in Loops(pmLI) : \E q \in PMQueries(s) :
        LET t == RunAs(s, pmF, pmLI, pmProcessed[s], Len(pmRuns) + 1, L, q)
        IN  ~t.fatal /\ ~t.result /\ PMReturn(s, L, t)

\* A pass's runOnLoop duplicates the loop and returns true.
PMRunOnLoopTransforms ==
    /\ Len(pmRuns) < MaxPMTransforms
    /\ \E s \in PMStrategies, L \in Loops(pmLI) : \E q \in PMQueries(s) :
         LET t == RunAs(s, pmF, pmLI, pmProcessed[s], Len(pmRuns) + 1, L, q)
         IN  ~t.fatal /\ t.result /\ PMReturn(s, L, t)

\* The pipeline goes on to the next function of the module: the pass
\* objects stay, and nothing clears their ProcessedLoops.
PMNextFunction ==
    /\ pmFunction < MaxFunctions
    /\ \E fn \in PMFunctions, reused \in BOOLEAN :
         /\ pmF' = fn.F
         /\ pmLI' = AllocateLoops(fn.LI, reused, pmFunction + 1)
    /\ pmFunction' = pmFunction + 1
    /\ UNCHANGED <<pmProcessed, pmRuns, pmLastCall,
                   engineVars, lasbcVars, lclicmVars>>

NextPassManager ==
    \/ PMRunOnLoopReturnsFalse
    \/ PMRunOnLoopTransforms
    \/ PMNextFunction

SpecPassManager == InitPassManager /\ [][NextPassManager]_vars

\* What the runs of strategy s marked as processed in the n-th function.
MarkedIn(s, n) ==
    UNION {pmRuns[i].marked :
              i \in {k \in DOMAIN pmRuns :
                        pmRuns[k].by = s /\ pmRuns[k].function = n}}

\* C26: the record of processed loops is shared by the two strategies: no
\* loop of a function is duplicated after it, or a loop it encloses or was
\* cloned into, went through a duplication, whichever strategy did it.
C26_NoLoopIsDuplicatedTwice ==
    \A i \in DOMAIN pmRuns : \A j \in DOMAIN pmRuns :
        (i < j /\ pmRuns[i].function = pmRuns[j].function)
            => pmRuns[j].loop \notin pmRuns[i].marked

\* C26, amended: every pass object keeps a record of its own.  A loop one
\* pass object duplicated, the duplicate and the loops inside them are in
\* that object's record and are never duplicated by it again; a call on a
\* loop of the record returns false.
C26_NoInstanceDuplicatesALoopTwice ==
    /\ \A i \in DOMAIN pmRuns :
          /\ pmRuns[i].marked \subseteq pmProcessed[pmRuns[i].by]
          /\ {pmRuns[i].loop, pmRuns[i].dup} \subseteq pmRuns[i].marked
          /\ \A j \in DOMAIN pmRuns :
                (i < j /\ pmRuns[i].by = pmRuns[j].by)
                    => pmRuns[j].loop \notin pmRuns[i].marked
    /\ \A s \in PMStrategies :
          pmProcessed[s] = UNION {pmRuns[i].marked :
                                     i \in {k \in DOMAIN pmRuns :
                                               pmRuns[k].by = s}}
    /\ pmLastCall.processed => ~pmLastCall.result

\* LASBC has duplicated a loop, LCLICM has duplicated the same loop again,
\* and LASBC called on the duplicate it made returns false.
C26_Witness ==
    /\ Len(pmRuns) = 2
    /\ pmRuns[1].by = "LASBC" /\ pmRuns[2].by = "LCLICM"
    /\ pmRuns[1].function = pmRuns[2].function
    /\ pmRuns[2].loop = pmRuns[1].loop
    /\ pmLastCall.by = "LASBC"
    /\ pmLastCall.loop = pmRuns[1].dup
    /\ pmLastCall.processed
    /\ ~pmLastCall.result

\* C27: ProcessedLoops lives for one function: a pass object's set holds
\* only what the object marked in the function it is processing, and a
\* call that finds its loop in the set finds a loop marked in that same
\* function.
C27_SetHoldsNoEntryOfAnEarlierFunction ==
    /\ \A s \in PMStrategies : pmProcessed[s] \subseteq MarkedIn(s, pmFunction)
    /\ pmLastCall.processed =>
          pmLastCall.loop \in MarkedIn(pmLastCall.by, pmLastCall.function)

=============================================================================
